---- MODULE Spec2Model ----
(***************************************************************************)
(* Agent Soul Kit: the file-resident memory store (MemoryEngine), the vibe *)
(* capture / archive state machine (VibeEngine) and their section editing. *)
(*                                                                         *)
(* A text is a sequence of tokens.  The structural characters the code's   *)
(* regular expressions and string operations look at are one token each    *)
(* ("#", " ", "\n", "-", "[", "]", "(", ")", ":", "$", "&", digits);       *)
(* every other token is an opaque run of word characters (a word, an       *)
(* emoji, a date), so token-wise equality is string equality.              *)
(***************************************************************************)
EXTENDS Integers, Sequences, FiniteSets, TLC

\* ------------------------------------------------------------------------
\* Strings
\* ------------------------------------------------------------------------

NL == "\n"
SP == " "

\* JavaScript white space, as far as the alphabet has it
IsSpace(t) == t \in {SP, NL}

Min(a, b) == IF a < b THEN a ELSE b
Max(a, b) == IF a > b THEN a ELSE b

\* s.slice(i - 1, j) with 1-based inclusive token positions
Sub(s, i, j) == IF i > j THEN <<>> ELSE SubSeq(s, i, j)

\* s.slice(i - 1): the suffix starting at position i
From(s, i) == Sub(s, i, Len(s))

\* pat occurs in s at position i
StartsAt(s, i, pat) ==
    /\ i >= 1
    /\ i + Len(pat) - 1 <= Len(s)
    /\ \A k \in 1..Len(pat) : s[i + k - 1] = pat[k]

\* the least and the greatest element of a set of positions, d if it is empty
FirstOr(S, d) == IF S = {} THEN d ELSE CHOOSE k \in S : \A h \in S : k <= h
LastOr(S, d) == IF S = {} THEN d ELSE CHOOSE k \in S : \A h \in S : h <= k

\* first position >= i at which pat occurs, 0 if none (String.indexOf)
IndexOf(s, pat, i) ==
    FirstOr({k \in i..(Len(s) - Len(pat) + 1) : StartsAt(s, k, pat)}, 0)

\* String.prototype.trimEnd / trimStart / trim
TrimEnd(s) == Sub(s, 1, LastOr({k \in 1..Len(s) : ~IsSpace(s[k])}, 0))

TrimStart(s) == From(s, FirstOr({k \in 1..Len(s) : ~IsSpace(s[k])}, Len(s) + 1))

Trim(s) == TrimStart(TrimEnd(s))

\* s.split("\n"): the lines of s (one more than the number of "\n")
SplitLines(s) ==
    LET \* the position of the n-th of the "\n" positions nls; 0 and
        \* Len(s) + 1 bracket the text
        NthBreak(nls, n) ==
            IF n = 0 THEN 0
            ELSE IF n > Cardinality(nls) THEN Len(s) + 1
            ELSE CHOOSE k \in nls : Cardinality({h \in nls : h <= k}) = n
        SplitAt(nls) ==
            [n \in 1..(Cardinality(nls) + 1) |->
                Sub(s, NthBreak(nls, n - 1) + 1, NthBreak(nls, n) - 1)]
    IN  SplitAt({k \in 1..Len(s) : s[k] = NL})

\* lines.join(sep)
RECURSIVE Join(_, _)
Join(lines, sep) ==
    IF Len(lines) = 0 THEN <<>>
    ELSE IF Len(lines) = 1 THEN lines[1]
    ELSE lines[1] \o sep \o Join(Tail(lines), sep)

\* arr.slice(-n) for n >= 1: the last n elements (all of them when n >= length)
LastN(s, n) == Sub(s, Max(1, Len(s) - n + 1), Len(s))

\* ------------------------------------------------------------------------
\* String.prototype.replace(regex, template): the replacement template
\* ------------------------------------------------------------------------

Digits == <<"0", "1", "2", "3", "4", "5", "6", "7", "8", "9">>

\* ECMAScript GetSubstitution: $$, $&, $`, $', $n and $nn are expanded, the
\* groups being numbered 1..Len(groups); anything else is copied.
RECURSIVE GetSubstitution(_, _, _, _, _)
GetSubstitution(tpl, matched, before, after, groups) ==
    LET IsDigit(t) == \E d \in 1..10 : Digits[d] = t
        DigitVal(t) == (CHOOSE d \in 1..10 : Digits[d] = t) - 1
        \* the value of the two-digit group number c c2, 0 when not digits
        TwoDigits(c, c2) ==
            IF IsDigit(c) /\ IsDigit(c2) THEN 10 * DigitVal(c) + DigitVal(c2) ELSE 0
        \* what the pattern "$" c c2 expands to, and the tokens it takes
        \* (c2 = "" at the end of the template)
        Expansion(c, c2) ==
            IF c = "$" THEN <<<<"$">>, 2>>
            ELSE IF c = "&" THEN <<matched, 2>>
            ELSE IF c = "`" THEN <<before, 2>>
            ELSE IF c = "'" THEN <<after, 2>>
            ELSE IF TwoDigits(c, c2) >= 1 /\ TwoDigits(c, c2) <= Len(groups)
                 THEN <<groups[TwoDigits(c, c2)], 3>>
            ELSE IF IsDigit(c) /\ DigitVal(c) >= 1 /\ DigitVal(c) <= Len(groups)
                 THEN <<groups[DigitVal(c)], 2>>
            ELSE <<<<"$">>, 1>>
        \* the template from its first "$" (at d) on, sub being its Expansion
        SubstituteFrom(d, sub) ==
            Sub(tpl, 1, d - 1) \o sub[1]
                \o GetSubstitution(From(tpl, d + sub[2]), matched, before, after, groups)
        \* d: the position of the first "$" of tpl, 0 if none
        SubstituteAt(d) ==
            IF d = 0 \/ d = Len(tpl) THEN tpl
            ELSE SubstituteFrom(d, Expansion(tpl[d + 1],
                                   IF d + 2 <= Len(tpl) THEN tpl[d + 2] ELSE ""))
    IN  SubstituteAt(IndexOf(tpl, <<"$">>, 1))

\* ------------------------------------------------------------------------
\* Section editing (VibeEngine: extractSection, replaceSection, upsertSection;
\* MemoryEngine: updateActiveContextSection)
\* ------------------------------------------------------------------------

\* an optional value: <<>> is null, <<x>> is x
Null == <<>>
Some(x) == <<x>>

H2 == <<"#", "#", SP>>

\* the text the pattern `## ${escapeRegex(title)}\n` matches
Heading(title) == H2 \o title \o <<NL>>

\* The match of /(## T\n)([\s\S]*?)(?=\n## |$)/ in content, or Null.  The
\* heading is a literal, found at its leftmost occurrence (the pattern has no
\* ^); the lazy body ends at the first position where the lookahead holds:
\* before "\n## ", at the end of the input and, under the m flag, before any
\* "\n" (there $ matches at every line end).
SectionMatch(content, title, multiline) ==
    LET \* the heading is at i (0: none), the body starts at b
        SectionAt(i, b) ==
            IF i = 0 THEN Null
            ELSE Some([start |-> i, body |-> b,
                       end |-> FirstOr({j \in b..Len(content) :
                                           \/ StartsAt(content, j, <<NL>> \o H2)
                                           \/ multiline /\ content[j] = NL},
                                       Len(content) + 1)])
        SectionFrom(i) == SectionAt(i, i + Len(Heading(title)))
    IN  SectionFrom(IndexOf(content, Heading(title), 1))

\* the text of capture group 2 / of extractSection's group 1 of the match m
BodyOf(content, m) == Sub(content, m.body, m.end - 1)

\* content.replace(regex, template) for the section pattern: the first match
\* only; groups lists the pattern's capture groups
ReplaceMatch(content, m, template, groups) ==
    LET Replaced(before, matched, after) ==
            before \o GetSubstitution(template, matched, before, after, groups) \o after
    IN  Replaced(Sub(content, 1, m.start - 1), Sub(content, m.start, m.end - 1),
                 From(content, m.end))

VIBE_SECTION == <<"Vibe", SP, "History">>

extractSection(content, title) ==
    LET \* match ? match[1].trim() : null
        TrimmedBody(m) == IF m = Null THEN Null ELSE Some(Trim(BodyOf(content, m[1])))
    IN  TrimmedBody(SectionMatch(content, title, FALSE))

replaceSection(content, title, newContent) ==
    LET \* no match leaves content as it is
        ReplaceIfMatch(m) ==
            IF m = Null THEN content
            ELSE ReplaceMatch(content, m[1], <<"$", "1", NL>> \o newContent \o <<NL>>,
                              <<Heading(title)>>)
    IN  ReplaceIfMatch(SectionMatch(content, title, FALSE))

upsertSection(content, title, newLine) ==
    LET Upserted(existing) ==
            IF existing # Null
            THEN replaceSection(content, title, existing[1] \o <<NL>> \o newLine)
            ELSE TrimEnd(content) \o <<NL, NL>> \o H2 \o title \o <<NL, NL>>
                     \o newLine \o <<NL>>
    IN  Upserted(extractSection(content, title))

\* MemoryEngine.updateActiveContextSection, from the text read to the text
\* written
UpdatedSection(current, sectionTitle, content) ==
    LET \* m: the match of sectionRegex (m flag), if any
        UpdatedWith(m) ==
            IF m # Null
            THEN ReplaceMatch(current, m[1], <<"$", "1">> \o content \o <<NL>>,
                              <<Heading(sectionTitle), BodyOf(current, m[1])>>)
            ELSE TrimEnd(current) \o <<NL, NL>> \o H2 \o sectionTitle \o <<NL>>
                     \o content \o <<NL>>
    IN  UpdatedWith(SectionMatch(current, sectionTitle, TRUE))

\* ------------------------------------------------------------------------
\* Vibe lines (VibeEngine.formatVibeLine, VIBE_LINE_RE, parseVibesFromContent)
\* ------------------------------------------------------------------------

\* the Vibe type; the tokens stand for the five emoji
Vibes == <<"FIRE", "THOUGHT", "SLEEPY", "HEART", "STAR">>

\* s.slice(0, n) counted in characters (a token is Len(token) characters)
RECURSIVE SliceChars(_, _)
SliceChars(s, n) ==
    IF s = <<>> \/ Len(Head(s)) > n THEN <<>>
    ELSE <<Head(s)>> \o SliceChars(Tail(s), n - Len(Head(s)))

\* s.replace(a, b) for one-token strings a, b: the first occurrence only
ReplaceFirst(s, a, b) ==
    LET k == IndexOf(s, <<a>>, 1)
    IN  IF k = 0 THEN s ELSE Sub(s, 1, k - 1) \o <<b>> \o From(s, k + 1)

TriggerOpen == <<"(", "trigger", ":", SP>>

\* A snapshot is [vibe, timestamp, summary, trigger], each a text; trigger
\* <<>> is an absent (or empty, equally falsy) trigger.
formatVibeLine(snapshot) ==
    LET time == ReplaceFirst(SliceChars(snapshot.timestamp, 16), "T", SP)
        trigger == IF snapshot.trigger # <<>>
                   THEN <<SP>> \o TriggerOpen \o snapshot.trigger \o <<")">>
                   ELSE <<>>
    IN  <<"-", SP>> \o snapshot.vibe \o <<SP, "[">> \o time \o <<"]", SP>>
            \o snapshot.summary \o trigger

\* VIBE_LINE_RE.exec(t): /^- (\S+) \[(.+?)\] (.+?)(?:\s*\(trigger: (.+?)\))?$/
\* on a line t without "\n": the match as [vibe, time, summary, trigger], Null
\* when the line does not match.
VibeLineMatch(t) ==
    LET \* w matches \(trigger: (.+?)\)$ : the group, as <<group>>, or Null
        TriggerGroup(w) ==
            IF StartsAt(w, 1, TriggerOpen) /\ Len(w) >= 6 /\ w[Len(w)] = ")"
            THEN Some(Sub(w, 5, Len(w) - 1)) ELSE Null
        \* tail matches \s*\(trigger: (.+?)\)$
        TriggerTail(tail) == TriggerGroup(TrimStart(tail))
        \* the lazy summary group ends at c
        MatchCut(vibe, time, r, c) ==
            Some([vibe |-> vibe, time |-> time, summary |-> Sub(r, 1, c),
                  trigger |-> TriggerTail(From(r, c + 1))])
        \* r follows "] ": the lazy summary is the shortest prefix of r whose
        \* rest is a trigger suffix or empty
        MatchSummary(vibe, time, r) ==
            MatchCut(vibe, time, r,
                     FirstOr({c \in 1..Len(r) : TriggerTail(From(r, c + 1)) # Null},
                             Len(r)))
        \* the tag ends at k; the lazy time group ends before q, the first
        \* "] " that leaves a summary (0: none)
        MatchTime(k, q) ==
            IF q = 0 THEN Null
            ELSE MatchSummary(Sub(t, 3, k), Sub(t, k + 3, q - 1), From(t, q + 2))
        \* \S+ is the maximal run of non-space tokens after "- ", ending at k
        \* (0: none)
        MatchTag(k) ==
            IF k = 0 \/ ~StartsAt(t, k + 1, <<SP, "[">>) THEN Null
            ELSE MatchTime(k, FirstOr({q \in (k + 4)..(Len(t) - 2) :
                                          StartsAt(t, q, <<"]", SP>>)}, 0))
    IN  IF ~StartsAt(t, 1, <<"-", SP>>) THEN Null
        ELSE MatchTag(LastOr({k \in 3..Len(t) : \A h \in 3..k : ~IsSpace(t[h])}, 0))

parseVibesFromContent(content) ==
    LET \* the snapshot pushed for a matching line
        ParsedSnapshot(m) ==
            [vibe |-> m.vibe,
             timestamp |-> ReplaceFirst(m.time, SP, "T") \o <<":00.000Z">>,
             summary |-> Trim(m.summary),
             trigger |-> IF m.trigger = Null THEN <<>> ELSE Trim(m.trigger[1])]
        IsMatch(m) == m # Null
        Pushed(hits) == [i \in 1..Len(hits) |-> ParsedSnapshot(hits[i][1])]
        VibeLineMatches(lines) ==
            [i \in 1..Len(lines) |-> VibeLineMatch(Trim(lines[i]))]
        \* the loop over the section's lines
        ParseLines(lines) == Pushed(SelectSeq(VibeLineMatches(lines), IsMatch))
        ParseSection(sectionContent) ==
            IF sectionContent = Null \/ sectionContent = Some(<<>>) THEN <<>>
            ELSE ParseLines(SplitLines(sectionContent[1]))
    IN  ParseSection(extractSection(content, VIBE_SECTION))

\* ------------------------------------------------------------------------
\* State: the files under the base directory, and the process clock
\* ------------------------------------------------------------------------

VARIABLES
    fs,        \* path -> Null (no such file) or Some(text)
    today,     \* the calendar date of the process clock (YYYY-MM-DD)
    last,      \* the last completed call: [op, arg, ret, pre (fs before it), day]
    captured,  \* the snapshots passed to capture() so far, in call order
    direct,    \* archive() was called by the caller (not only from capture)
    calls,     \* SpecEdit, SpecFiles: the calls made so far, [op, arg] each
    unreadable \* the paths whose read the operating system refuses (EACCES)

vars == <<fs, today, last, captured, direct, calls, unreadable>>

Dates == <<"2026-11-06", "2026-11-07">>

\* the 31 days before them, on which daily logs were written: 2026-10-06 to
\* 2026-11-05, in ascending order
PastDates ==
    [i \in 1..26 |-> "2026-10-" \o (IF i < 5 THEN "0" ELSE "") \o ToString(i + 5)]
        \o [i \in 1..5 |-> "2026-11-0" \o ToString(i)]

\* this.paths, resolved against baseDir; a path is <<directory, name>>, or
\* <<name>> for a file of the base directory itself
acPath == <<"active_context.md">>
memPath == <<"MEMORY.md">>
soulPath == <<"SOUL.md">>
dailyLogPath(d) == <<"memory", d>>
diaryPath(d) == <<"memory/mind_diary", d>>

\* PersonalityDrift: `${id}.json` under SNAPSHOTS_DIR
SNAPSHOTS_DIR == "memory/drift_snapshots"
snapshotPath(id) == <<SNAPSHOTS_DIR, id>>

\* SharedMemory: `${topic}.md` under the shared directory
Topics == {"general", "plans"}
topicPath(topic) == <<"coordination", topic>>
\* the names of the shared state files, and join(sharedDir, `${name}.md`)
StateNames == {"general", "board"}
statePath(name) == <<"coordination", name>>

Paths ==
    {acPath, memPath, soulPath}
        \cup {dailyLogPath(Dates[i]) : i \in 1..Len(Dates)}
        \cup {dailyLogPath(PastDates[i]) : i \in 1..Len(PastDates)}
        \cup {diaryPath(Dates[i]) : i \in 1..Len(Dates)}
        \cup {snapshotPath(Dates[i]) : i \in 1..Len(Dates)}
        \cup {topicPath(t) : t \in Topics}
        \cup {statePath(n) : n \in StateNames}

\* A string may hold an unpaired surrogate code unit (half of an emoji);
\* UTF-8 has no encoding for it and Node writes U+FFFD in its place.
LoneSurrogate == "\\uD83D"
ReplacementChar == "\\uFFFD"

\* the text that the UTF-8 bytes of content decode to
Utf8(content) ==
    [i \in 1..Len(content) |->
        IF content[i] = LoneSurrogate THEN ReplacementChar ELSE content[i]]

\* the outcome of a call: a value returned, or an error thrown
Returned(v) == [threw |-> FALSE, value |-> v]
Thrown(e) == [threw |-> TRUE, value |-> e]

\* await readFile(path, "utf-8"): rejected with EACCES when the path may not
\* be read, with ENOENT when there is no such file
readFile(f, path) ==
    IF path \in unreadable THEN Thrown("EACCES")
    ELSE IF f[path] = Null THEN Thrown("ENOENT") ELSE Returned(f[path][1])

\* a try without its catch
CatchAll_Uncaught(r, fallback) == r

\* try { ... } catch { return fallback }: every error is caught
CatchAll(r, fallback) == IF r.threw THEN Returned(fallback) ELSE r

\* try { content = await readFile(path) } catch { content = "" }
ReadOrEmpty(f, path) == CatchAll(readFile(f, path), <<>>).value

\* await writeFile(path, content, "utf-8")
WriteFile(f, path, content) == [f EXCEPT ![path] = Some(Utf8(content))]

\* await readdir(dir): the set of entries as [stem, ext] (their order is the
\* file system's).  A directory exists once a file was written under it
\* (every writer runs mkdir -p first); "memory" holds the two sub-directories.
readdir(f, dir) ==
    LET InDir(path) ==
            /\ Len(path) = 2
            /\ \/ path[1] = dir
               \/ dir = "memory" /\ path[1] \in {"memory/mind_diary", SNAPSHOTS_DIR}
        \* the files of dir, and its sub-directories
        Entries ==
            {[stem |-> q[2], ext |-> IF dir = SNAPSHOTS_DIR THEN ".json" ELSE ".md"] :
                q \in {q \in Paths : Len(q) = 2 /\ q[1] = dir /\ f[q] # Null}}
            \cup {[stem |-> x, ext |-> ""] :
                    x \in {x \in {"mind_diary", "drift_snapshots"} :
                                /\ dir = "memory"
                                /\ \E q \in Paths : /\ f[q] # Null
                                                    /\ Len(q) = 2
                                                    /\ q[1] = "memory/" \o x}}
    IN  IF \E q \in Paths : f[q] # Null /\ InDir(q)
        THEN Returned(Entries) ELSE Thrown("ENOENT")

\* ------------------------------------------------------------------------
\* VibeEngine.capture / archive
\* ------------------------------------------------------------------------

MAX_ACTIVE_VIBES == 10

\* toArchive.map(formatVibeLine) and toKeep.map(formatVibeLine)
FormatAll(vibes) == [i \in 1..Len(vibes) |-> formatVibeLine(vibes[i])]

keepCount == MAX_ACTIVE_VIBES \div 2

\* archive() run on the files f on calendar day d: the files it leaves and
\* the count it returns
archive(f, d) ==
    LET \* header + existing + archiveBlock
        DiaryText(existing, diaryContent) ==
            (IF existing # <<>> THEN <<>>
             ELSE <<"#", SP, "XinZhiRiJi", SP, d, NL, NL>>)
                \o existing
                \o <<NL, "#", "#", "#", SP, "Archived", SP, "Vibes", NL, NL>>
                \o diaryContent \o <<NL, NL, "-", "-", "-", NL>>
        \* from the split of the vibes on: the diary write, then the Active
        \* Context write
        archiveSplit(content, toArchive, toKeep) ==
            [fs |-> WriteFile(
                        WriteFile(f, diaryPath(d),
                                  DiaryText(ReadOrEmpty(f, diaryPath(d)),
                                            Join(FormatAll(toArchive), <<NL>>))),
                        acPath,
                        replaceSection(content, VIBE_SECTION,
                                       Join(FormatAll(toKeep), <<NL>>))),
             ret |-> Len(toArchive)]
        \* once Active Context has been read and parsed
        archiveVibes(content, vibes) ==
            IF Len(vibes) <= keepCount THEN [fs |-> f, ret |-> 0]
            ELSE archiveSplit(content, Sub(vibes, 1, Len(vibes) - keepCount),
                              From(vibes, Len(vibes) - keepCount + 1))
    IN  IF readFile(f, acPath).threw THEN [fs |-> f, ret |-> 0]
        ELSE archiveVibes(f[acPath][1], parseVibesFromContent(f[acPath][1]))

\* the character U+2014 of the texts that promote and resonance build
EmDash == "\\u2014"

\* promote(snapshot, reflection): the files it leaves.  Whatever makes the
\* read of Curated Memory fail, memory is ""
promote(f, snapshot, reflection) ==
    LET \* snapshot.timestamp.slice(0, 10)
        date == snapshot.timestamp[1]
        entry ==
            <<NL, "#", "#", SP>> \o snapshot.vibe \o <<SP, "Vibe", SP, EmDash, SP, date, NL, NL>>
                \o snapshot.summary \o <<NL, NL>> \o reflection \o <<NL>>
    IN  WriteFile(f, memPath, TrimEnd(ReadOrEmpty(f, memPath)) \o <<NL>> \o entry)

\* capture() with the ceiling test off by one: archives at 10 lines already
captureWritten_AtCeiling(f, d, content) ==
    IF Len(parseVibesFromContent(content)) >= MAX_ACTIVE_VIBES
    THEN archive(WriteFile(f, acPath, content), d).fs
    ELSE WriteFile(f, acPath, content)

\* capture() from its writeFile on: content is written, and archive() runs
\* when content holds too many vibes
captureWritten(f, d, content) ==
    IF Len(parseVibesFromContent(content)) > MAX_ACTIVE_VIBES
    THEN archive(WriteFile(f, acPath, content), d).fs
    ELSE WriteFile(f, acPath, content)

\* a capture that promotes the star vibe on its own
capture_AutoPromote(f, d, snapshot) ==
    LET Captured(f2) ==
            IF snapshot.vibe = <<"STAR">> THEN promote(f2, snapshot, <<>>) ELSE f2
    IN  Captured(captureWritten(f, d, upsertSection(ReadOrEmpty(f, acPath), VIBE_SECTION,
                                                    formatVibeLine(snapshot))))

\* capture(snapshot) run on the files f on calendar day d: the files it leaves
capture(f, d, snapshot) ==
    captureWritten(f, d, upsertSection(ReadOrEmpty(f, acPath), VIBE_SECTION,
                                       formatVibeLine(snapshot)))

\* ------------------------------------------------------------------------
\* Reads and whole-file writes (MemoryEngine, VibeEngine, PersonalityDrift,
\* SharedMemory)
\* ------------------------------------------------------------------------

readSoul(f) == CatchAll(readFile(f, soulPath), <<>>)
readActiveContext(f) == CatchAll(readFile(f, acPath), <<>>)
readMemory(f) == CatchAll(readFile(f, memPath), <<>>)
readDailyLog(f, date) == CatchAll(readFile(f, dailyLogPath(date)), <<>>)
readDiary(f, date) == CatchAll(readFile(f, diaryPath(date)), <<>>)

\* appendDiary(time, title, content) run on the files f on calendar day d:
\* the files it leaves
appendDiary(f, d, time, title, content) ==
    LET \* header + current + block
        DiaryWith(current) ==
            (IF current # <<>> THEN <<>>
             ELSE <<"#", SP, "XinZhiRiJi", SP, d, NL, NL>>)
                \o current
                \o <<"-", "-", "-", NL, NL, "#", "#", "#", SP>> \o time
                \o <<SP, EmDash, SP>> \o title \o <<NL, NL>> \o Trim(content) \o <<NL>>
    IN  WriteFile(f, diaryPath(d), DiaryWith(readDiary(f, d).value))

writeSoul_ToMemory(f, content) == WriteFile(f, memPath, content)

writeSoul(f, content) == WriteFile(f, soulPath, content)
writeActiveContext(f, content) == WriteFile(f, acPath, content)
writeMemory(f, content) == WriteFile(f, memPath, content)

\* the stems of a set of entries as a list, sorted ascending (the dates are)
SortedStems(es) ==
    SelectSeq(PastDates \o Dates, LAMBDA d : \E e \in es : e.stem = d)

\* the dates oldest first
listDailyLogs_Ascending(f) ==
    LET \* /^\d{4}-\d{2}-\d{2}\.md$/.test(name); the dates are the stems of
        \* that shape
        IsDailyLogName(e) ==
            e.ext = ".md" /\ \E i \in 1..Len(PastDates \o Dates) :
                                  (PastDates \o Dates)[i] = e.stem
        \* files.filter(...).map(...).sort().reverse()
        DailyLogDates(files) ==
            SortedStems({e \in files : IsDailyLogName(e)})
        listed(r) == IF r.threw THEN r ELSE Returned(DailyLogDates(r.value))
    IN  CatchAll(listed(readdir(f, "memory")), <<>>)

listDailyLogs(f) ==
    LET \* /^\d{4}-\d{2}-\d{2}\.md$/.test(name); the dates are the stems of
        \* that shape
        IsDailyLogName(e) ==
            e.ext = ".md" /\ \E i \in 1..Len(PastDates \o Dates) :
                                  (PastDates \o Dates)[i] = e.stem
        Reverse(q) == [i \in 1..Len(q) |-> q[Len(q) + 1 - i]]
        \* files.filter(...).map(...).sort().reverse()
        DailyLogDates(files) ==
            Reverse(SortedStems({e \in files : IsDailyLogName(e)}))
        listed(r) == IF r.threw THEN r ELSE Returned(DailyLogDates(r.value))
    IN  CatchAll(listed(readdir(f, "memory")), <<>>)

readRecent(f, limit, filter) ==
    LET \* vibes.filter((v) => v.vibe === filter) when a filter is given
        \* (<<>>: none)
        Filtered(vibes) ==
            IF filter = <<>> THEN vibes
            ELSE SelectSeq(vibes, LAMBDA v : v.vibe = filter)
        \* arr.slice(-limit): from max(len - limit, 0) when limit > 0; -0 is
        \* 0, the whole array
        SliceLast(arr) ==
            IF limit = 0 THEN arr
            ELSE Sub(arr, Max(Len(arr) - limit, 0) + 1, Len(arr))
        \* once the file has been read (r)
        recentOf(r) ==
            IF r.threw THEN Returned(<<>>)
            ELSE Returned(SliceLast(Filtered(parseVibesFromContent(r.value))))
    IN  recentOf(readFile(f, acPath))

current(f) ==
    LET \* recent[0] ?? null
        firstOrNull(r) ==
            IF r.threw THEN r
            ELSE IF r.value = <<>> THEN Returned(Null) ELSE Returned(Some(r.value[1]))
    IN  firstOrNull(readRecent(f, 1, <<>>))

listSnapshots(f) ==
    LET \* files.filter((f) => f.endsWith(".json")).map(...).sort()
        snapshotIds(r) ==
            IF r.threw THEN r
            ELSE Returned(SortedStems({e \in r.value : e.ext = ".json"}))
    IN  CatchAll(snapshotIds(readdir(f, SNAPSHOTS_DIR)), <<>>)

\* ------------------------------------------------------------------------
\* Appends (MemoryEngine.appendMemory, appendDailyLog)
\* ------------------------------------------------------------------------

\* MemoryEngine.appendMemory(content): the files it leaves
appendMemory(f, content) ==
    WriteFile(f, memPath,
              TrimEnd(readMemory(f).value) \o <<NL, NL>> \o Trim(content) \o <<NL>>)

\* new Date(timestamp).toLocaleTimeString("en-US", {hour, minute, hour12:
\* false}) for a timestamp <<date, "T", "HH:MM", ":SS.mmmZ">>, the process
\* running in UTC: "HH:MM"
LocalTime(timestamp) == <<timestamp[3]>>

\* appendDailyLog filing the entry under the date of its timestamp
appendDailyLog_ByEntryDate(f, d, entry) ==
    WriteFile(f, dailyLogPath(entry.timestamp[1]),
              readDailyLog(f, entry.timestamp[1]).value
                  \o <<"#", "#", "#", SP>> \o <<entry.timestamp[3]>>
                  \o <<NL, NL>> \o Trim(entry.content))

\* MemoryEngine.appendDailyLog(entry) on calendar day d: the files it leaves.
\* An entry is [timestamp, content, tags], tags a list of texts (<<>>: none).
appendDailyLog(f, d, entry) ==
    LET tags == IF entry.tags # <<>>
                THEN <<SP, "[">> \o Join(entry.tags, <<",", SP>>) \o <<"]">>
                ELSE <<>>
        block == <<"#", "#", "#", SP>> \o LocalTime(entry.timestamp) \o tags
                     \o <<NL, NL>> \o Trim(entry.content)
                     \o <<NL, NL, "-", "-", "-", NL>>
        \* header + current + block
        Appended(cur) ==
            (IF cur # <<>> THEN <<>> ELSE <<"#", SP, d, NL, NL>>)
                \o cur \o block
    IN  WriteFile(f, dailyLogPath(d), Appended(readDailyLog(f, d).value))

\* ------------------------------------------------------------------------
\* SharedMemory.read / parseMessages
\* ------------------------------------------------------------------------

\* s.split(sep) for a non-empty sep: cut at each occurrence, left to right
RECURSIVE SplitOn(_, _)
SplitOn(s, sep) ==
    LET SplitAtFirst(i) ==
            IF i = 0 THEN <<s>>
            ELSE <<Sub(s, 1, i - 1)>> \o SplitOn(From(s, i + Len(sep)), sep)
    IN  SplitAtFirst(IndexOf(s, sep, 1))

\* headerRe.exec(l) for headerRe = /###\s*\[(.+?)\]\s*(.+)/: the groups of the
\* match at the leftmost position that has one, or Null.  At position p:
\* "###", white space up to w, "[" at w, then the first "]" (at q) that has a
\* character before and after it.
HeaderExec(l) ==
    LET HeaderGroups(w, q) ==
            IF q = 0 THEN Null
            ELSE Some([time |-> Sub(l, w + 1, q - 1), agent |-> From(l, q + 1)])
        HeaderFromBracket(w) ==
            IF w > Len(l) \/ l[w] # "[" THEN Null
            ELSE HeaderGroups(w, FirstOr({q \in (w + 2)..(Len(l) - 1) : l[q] = "]"}, 0))
        HeaderAt(p) ==
            IF ~StartsAt(l, p, <<"#", "#", "#">>) THEN Null
            ELSE HeaderFromBracket(FirstOr({w \in (p + 3)..Len(l) : ~IsSpace(l[w])},
                                           Len(l) + 1))
        HeaderExecAt(p) == IF p = 0 THEN Null ELSE HeaderAt(p)
    IN  HeaderExecAt(FirstOr({p \in 1..Len(l) : HeaderAt(p) # Null}, 0))

RECURSIVE Flatten(_)
Flatten(seqs) == IF seqs = <<>> THEN <<>> ELSE Head(seqs) \o Flatten(Tail(seqs))

\* the <<key, value>> assignments of one metadata line, in order
PairsOfLine(ml) ==
    LET \* ml.replace(/^>\s*/, "")
        StripQuote == TrimStart(From(ml, 2))
        \* const [k, v] = pair.split(": "); if (k && v) -> <<k.trim(), v.trim()>>
        PairOf(parts) ==
            IF Len(parts) >= 2 /\ parts[1] # <<>> /\ parts[2] # <<>>
            THEN <<<<Trim(parts[1]), Trim(parts[2])>>>> ELSE <<>>
        PairsOfSplit(pairs) ==
            Flatten([i \in 1..Len(pairs) |-> PairOf(SplitOn(pairs[i], <<":", SP>>))])
    IN  PairsOfSplit(SplitOn(StripQuote, <<SP, "|", SP>>))

\* the object the assignments build: a later value replaces an earlier one;
\* undefined (Null) when there is no key
MetadataOf(assigned) ==
    IF assigned = <<>> THEN Null
    ELSE Some({assigned[i] : i \in {j \in 1..Len(assigned) :
                   \A h \in (j + 1)..Len(assigned) : assigned[h][1] # assigned[j][1]}})

parseMessages(topic, content) ==
    LET IsHeader(l) == HeaderExec(l) # Null
        IsMetaLine(l) == StartsAt(l, 1, <<">">>)
        IsContentLine(l) ==
            /\ ~IsHeader(l)
            /\ ~IsMetaLine(l)
            /\ ~StartsAt(l, 1, <<"#", SP>>)
            /\ Trim(l) # <<>>
        MetaPairs(metaLines) ==
            Flatten([i \in 1..Len(metaLines) |-> PairsOfLine(metaLines[i])])
        \* messages.push({...}) for a block whose header line matched with
        \* groups m
        MessageOf(lines, m) ==
            [agent |-> Trim(m.agent),
             topic |-> topic,
             timestamp |-> ReplaceFirst(Trim(m.time), SP, "T") \o <<":00.000Z">>,
             content |-> Trim(Join(SelectSeq(lines, IsContentLine), <<NL>>)),
             metadata |-> MetadataOf(MetaPairs(SelectSeq(lines, IsMetaLine)))]
        \* the messages (none or one) of a block, given its lines and those
        \* of them that match headerRe
        BlockMessage(lines, headers) ==
            IF headers = <<>> THEN <<>>
            ELSE <<MessageOf(lines, HeaderExec(headers[1])[1])>>
        BlockLines(lines) == BlockMessage(lines, SelectSeq(lines, IsHeader))
        IsBlock(b) == Trim(b) # <<>>
        MessagesOf(blocks) ==
            Flatten([i \in 1..Len(blocks) |-> BlockLines(SplitLines(Trim(blocks[i])))])
    IN  MessagesOf(SelectSeq(SplitOn(content, <<"-", "-", "-">>), IsBlock))

\* SharedMemory.read(topic)
read(f, topic) ==
    LET messagesIn(r) ==
            IF r.threw THEN Returned(<<>>) ELSE Returned(parseMessages(topic, r.value))
    IN  messagesIn(readFile(f, topicPath(topic)))

\* SharedMemory.readLatest(topic, limit): all.slice(-limit), which for
\* limit 0 is all.slice(0), the whole list
readLatest(f, topic, limit) ==
    LET sliced(all) ==
            IF limit = 0 THEN all ELSE Sub(all, Max(Len(all) - limit, 0) + 1, Len(all))
    IN  Returned(sliced(read(f, topic).value))

\* ------------------------------------------------------------------------
\* PersonalityDrift
\* ------------------------------------------------------------------------

\* the string a text is: its tokens one after the other
RECURSIVE Str(_)
Str(s) == IF s = <<>> THEN "" ELSE Head(s) \o Str(Tail(s))

\* createHash("sha256").update(content).digest("hex").slice(0, 16): equal
\* for equal UTF-8 bytes, and different for the different contents met here
hash(content) == "sha256:" \o Str(Utf8(content))

\* Buffer.byteLength(text, "utf-8"): four bytes for an emoji, six for the
\* heart with its variation selector, three for U+FFFD (and for the unpaired
\* surrogate it replaces), one for each character of the other tokens
RECURSIVE ByteLength(_)
ByteLength(text) ==
    LET Bytes(t) ==
            IF t \in {"FIRE", "THOUGHT", "SLEEPY", "STAR"} THEN 4
            ELSE IF t = "HEART" THEN 6
            ELSE IF t \in {LoneSurrogate, ReplacementChar} THEN 3
            ELSE Len(t)
    IN  IF text = <<>> THEN 0 ELSE Bytes(Head(text)) + ByteLength(Tail(text))

\* for (const k of keys) r[k] = (r[k] ?? 0) + 1 on r = {}: Object.entries(r),
\* a <<key, count>> for each key in the order of its first occurrence (no key
\* here is a number or a member of Object.prototype)
Tally(keys) ==
    LET Counted(firsts) ==
            [n \in 1..Len(firsts) |->
                <<keys[firsts[n]],
                  Cardinality({j \in 1..Len(keys) : keys[j] = keys[firsts[n]]})>>]
    IN  Counted(SelectSeq([i \in 1..Len(keys) |-> i],
                          LAMBDA i : \A j \in 1..(i - 1) : keys[j] # keys[i]))

\* entries.sort((a, b) => b[1] - a[1]): by count, the greater first; the sort
\* is stable, entries of equal count keep their order
SortByCount(entries) ==
    LET Before(j, i) ==
            \/ entries[j][2] > entries[i][2]
            \/ entries[j][2] = entries[i][2] /\ j < i
        Rank(i) == 1 + Cardinality({j \in 1..Len(entries) : Before(j, i)})
    IN  [n \in 1..Len(entries) |->
            entries[CHOOSE i \in 1..Len(entries) : Rank(i) = n]]

\* VibeEngine.resonance(): the text it returns, as tokens
resonance(f) ==
    LET toneMap ==
            <<"energetic, passionate", "reflective, thoughtful", "calm, low-energy",
              "warm, affectionate", "inspired, significant">>
        \* toneMap[tag] ?? "mixed" (no tag here is a member of Object.prototype)
        dominantTone(tag) ==
            IF \E i \in 1..Len(Vibes) : <<Vibes[i]>> = tag
            THEN toneMap[CHOOSE i \in 1..Len(Vibes) : <<Vibes[i]>> = tag]
            ELSE "mixed"
        \* `${dominant[0]} ${dominantTone} (${dominant[1]}/${vibes.length}
        \* recent) — latest: "${latestSummary}"`
        Told(dominant, vibes) ==
            dominant[1] \o <<SP, dominantTone(dominant[1]), SP, "(", ToString(dominant[2]),
                             "/", ToString(Len(vibes)), SP, "recent", ")", SP, EmDash, SP,
                             "latest", ":", SP, "\"">>
                \o vibes[Len(vibes)].summary \o <<"\"">>
        Resonated(vibes) ==
            IF vibes = <<>>
            THEN <<"neutral", SP, EmDash, SP, "no", SP, "recent", SP, "emotional", SP, "data">>
            ELSE Told(SortByCount(Tally([i \in 1..Len(vibes) |-> vibes[i].vibe]))[1], vibes)
    IN  Resonated(readRecent(f, 5, <<>>).value)

\* PersonalityDrift.extractThemes(text), limit = 10
extractThemes(text) ==
    LET stopWords ==
            {"the", "a", "an", "is", "are", "was", "were", "be", "been",
             "have", "has", "had", "do", "does", "did", "will", "would",
             "could", "should", "may", "might", "can", "shall", "to", "of",
             "in", "for", "on", "with", "at", "by", "from", "as", "into",
             "through", "during", "before", "after", "above", "below",
             "between", "out", "off", "over", "under", "again", "further",
             "then", "once", "here", "there", "when", "where", "why", "how",
             "all", "each", "every", "both", "few", "more", "most", "other",
             "some", "such", "no", "nor", "not", "only", "own", "same",
             "so", "than", "too", "very", "just", "because", "but", "and",
             "or", "if", "while", "about", "up", "this", "that", "it",
             "its", "my", "your", "his", "her", "our", "their", "what",
             "which", "who", "whom", "these", "those", "i", "me", "we",
             "you", "he", "she", "they", "them", "us"}
        \* text.toLowerCase().replace(/[^a-z\u4e00-\u9fff\s]/g, " ") on one
        \* token: a token of letters in lower case, "" for a token of white
        \* space or of other characters (the texts here hold no token that
        \* mixes letters with other characters)
        Letters(t) ==
            IF t = "Memory" THEN "memory"
            ELSE IF t = "First" THEN "first"
            ELSE IF t = "Fixed" THEN "fixed"
            ELSE IF IsSpace(t) \/ t \in {"#", "-", ",", ".", ":", "[", "]", "(", ")", "$", "&"}
                    \/ (\E i \in 1..Len(Digits) : Digits[i] = t)
                    \/ (\E i \in 1..Len(Vibes) : Vibes[i] = t)
                    \/ t \in {LoneSurrogate, ReplacementChar}
                 THEN ""
            ELSE t
        \* .split(/\s+/): the runs of letters, word the run being read
        RECURSIVE Runs(_, _)
        Runs(s, word) ==
            IF s = <<>> THEN (IF word = "" THEN <<>> ELSE <<word>>)
            ELSE IF Letters(Head(s)) # "" THEN Runs(Tail(s), word \o Letters(Head(s)))
            ELSE (IF word = "" THEN <<>> ELSE <<word>>) \o Runs(Tail(s), "")
        Significant(w) == Len(w) > 2 /\ w \notin stopWords
        \* .slice(0, limit).map(([word]) => word)
        Top(sorted) == [n \in 1..Min(Len(sorted), 10) |-> sorted[n][1]]
    IN  Top(SortByCount(Tally(SelectSeq(Runs(text, ""), Significant))))

\* JSON.stringify(snapshot, null, 2): the fields in the order of the object
\* literal, "," between them; a number is written in decimal
JsonStringify(s) ==
    LET Pair(e) == <<e[1], ToString(e[2])>>
    IN  <<"{">> \o s.timestamp
            \o <<",", s.soulHash, ",", ToString(s.memorySize), ",",
                 ToString(s.diaryCount), ",">>
            \o Flatten([i \in 1..Len(s.vibeDistribution) |-> Pair(s.vibeDistribution[i])])
            \o <<",">> \o s.topThemes \o <<"}">>

\* JSON.parse(content) as PersonalitySnapshot: the object of a text that
\* JSON.stringify wrote, SyntaxError for any other
JsonParse(content) ==
    LET Num(t) == CHOOSE n \in 0..4095 : ToString(n) = t
        Entries(p) == [i \in 1..(Len(p) \div 2) |-> <<p[2 * i - 1], Num(p[2 * i])>>]
        Object(fields) ==
            IF Len(fields) # 6 THEN Thrown("SyntaxError")
            ELSE Returned(Some([timestamp |-> fields[1],
                                soulHash |-> fields[2][1],
                                memorySize |-> Num(fields[3][1]),
                                diaryCount |-> Num(fields[4][1]),
                                vibeDistribution |-> Entries(fields[5]),
                                topThemes |-> fields[6]]))
    IN  IF Len(content) >= 2 /\ content[1] = "{" /\ content[Len(content)] = "}"
        THEN Object(SplitOn(Sub(content, 2, Len(content) - 1), <<",">>))
        ELSE Thrown("SyntaxError")

loadSnapshot(f, id) ==
    LET parsed(r) == IF r.threw THEN r ELSE JsonParse(r.value)
    IN  CatchAll(parsed(readFile(f, snapshotPath(id))), Null)

\* saveSnapshot keeping the file a day already has
saveSnapshot_KeepFirst(f, snapshot) ==
    IF f[snapshotPath(Str(SliceChars(snapshot.timestamp, 10)))] # Null THEN f
    ELSE WriteFile(f, snapshotPath(Str(SliceChars(snapshot.timestamp, 10))),
                   JsonStringify(snapshot))

\* saveSnapshot filing the snapshot among the daily logs
saveSnapshot_AmongLogs(f, snapshot) ==
    WriteFile(f, dailyLogPath(Str(SliceChars(snapshot.timestamp, 10))),
              JsonStringify(snapshot))

\* PersonalityDrift.saveSnapshot(snapshot): the files it leaves
saveSnapshot(f, snapshot) ==
    WriteFile(f, snapshotPath(Str(SliceChars(snapshot.timestamp, 10))),
              JsonStringify(snapshot))

\* new Date().toISOString() on calendar day d (UTC)
Now(d) == <<d, "T", "12:00", ":00.000Z">>

\* PersonalityDrift.takeSnapshot() on calendar day d: the files it leaves and
\* the snapshot it returns
takeSnapshot(f, d) ==
    LET TagsOf(vibes) == [i \in 1..Len(vibes) |-> Str(vibes[i].vibe)]
        Saved(snapshot) == [fs |-> saveSnapshot(f, snapshot), ret |-> snapshot]
    IN  Saved([timestamp |-> Now(d),
               soulHash |-> hash(readSoul(f).value),
               memorySize |-> ByteLength(readMemory(f).value),
               diaryCount |-> Len(listDailyLogs(f).value),
               vibeDistribution |-> Tally(TagsOf(readRecent(f, 100, <<>>).value)),
               topThemes |-> extractThemes(readMemory(f).value)])

\* PersonalityDrift.dominantKey(record): Null, or Some(key)
dominantKey(record) ==
    IF record = <<>> THEN Null ELSE Some(SortByCount(record)[1][1])

\* toneMap[tag] ?? tag.  toneMap is an object literal: besides its five own
\* keys it has the members it inherits from Object.prototype, and none of
\* them is null or undefined
Tone(tag) ==
    LET toneMap == <<"energetic", "reflective", "calm", "warm", "inspired">>
    IN  IF \E i \in 1..Len(Vibes) : Vibes[i] = tag
        THEN toneMap[CHOOSE i \in 1..Len(Vibes) : Vibes[i] = tag]
        ELSE IF tag = "constructor" THEN "function Object() { [native code] }"
        ELSE IF tag = "toString" THEN "function toString() { [native code] }"
        ELSE tag

\* PersonalityDrift.analyzeVibeTrend(from, to)
analyzeVibeTrend(from, to) ==
    LET \* !dominant: null, or the empty string
        None(dominant) == dominant = Null \/ dominant = Some("")
        Trend(fromDominant, toDominant) ==
            IF None(fromDominant) /\ None(toDominant) THEN <<>>
            ELSE IF None(fromDominant) THEN <<"becoming", SP, Tone(toDominant[1])>>
            ELSE IF None(toDominant) THEN <<"emotional", SP, "data", SP, "fading">>
            ELSE IF fromDominant = toDominant
                 THEN <<"consistently", SP, Tone(fromDominant[1])>>
            ELSE <<"shifting", SP, "from", SP, Tone(fromDominant[1]), SP, "to", SP,
                   Tone(toDominant[1])>>
    IN  Trend(dominantKey(from), dominantKey(to))

\* PersonalityDrift.compare(from, to); the token "-" of the first clause
\* stands for its dash
compare(from, to) ==
    LET \* (memoryGrowth / 1024).toFixed(1)
        Kb(n) == ToString(((n * 10 + 512) \div 1024) \div 10) \o "."
                     \o ToString(((n * 10 + 512) \div 1024) % 10)
        List(themes) == Join([i \in 1..Len(themes) |-> <<themes[i]>>], <<",", SP>>)
        \* the clauses pushed to parts, in order
        Parts(soulChanged, memoryGrowth, newDiaryEntries, vibeTrend, newThemes, lostThemes) ==
            (IF soulChanged
             THEN <<<<"Soul", SP, "definition", SP, "has", SP, "changed", SP, "-",
                      SP, "identity", SP, "is", SP, "evolving.">>>>
             ELSE <<>>)
            \o (IF memoryGrowth > 0
                THEN <<<<"Memory", SP, "grew", SP, "by", SP, Kb(memoryGrowth), SP, "KB.">>>>
                ELSE IF memoryGrowth = 0
                THEN <<<<"Memory", SP, "size", SP, "unchanged.">>>>
                ELSE <<>>)
            \o (IF newDiaryEntries > 0
                THEN <<<<ToString(newDiaryEntries), SP, "new", SP, "diary", SP,
                         "entries", SP, "written.">>>>
                ELSE <<>>)
            \o (IF vibeTrend # <<>>
                THEN <<<<"Emotional", SP, "trend:", SP>> \o vibeTrend \o <<".">>>>
                ELSE <<>>)
            \o (IF newThemes # <<>>
                THEN <<<<"New", SP, "interests:", SP>> \o List(newThemes) \o <<".">>>>
                ELSE <<>>)
            \o (IF lostThemes # <<>>
                THEN <<<<"Fading", SP, "interests:", SP>> \o List(lostThemes) \o <<".">>>>
                ELSE <<>>)
        \* x || fallback on strings
        Or(x, fallback) == IF x = <<>> THEN fallback ELSE x
        Missing(a, b) == SelectSeq(a, LAMBDA t : \A i \in 1..Len(b) : b[i] # t)
        Report(soulChanged, memoryGrowth, newDiaryEntries, vibeTrend, newThemes, lostThemes) ==
            [from |-> from, to |-> to,
             soulChanged |-> soulChanged,
             memoryGrowth |-> memoryGrowth,
             newDiaryEntries |-> newDiaryEntries,
             vibeTrend |-> Or(vibeTrend, <<"stable">>),
             summary |->
                 Or(Join(Parts(soulChanged, memoryGrowth, newDiaryEntries,
                               vibeTrend, newThemes, lostThemes), <<SP>>),
                    <<"No", SP, "significant", SP, "drift", SP, "detected.">>)]
    IN  Report(from.soulHash # to.soulHash,
               to.memorySize - from.memorySize,
               to.diaryCount - from.diaryCount,
               analyzeVibeTrend(from.vibeDistribution, to.vibeDistribution),
               Missing(to.topThemes, from.topThemes),
               Missing(from.topThemes, to.topThemes))

\* checkDrift loading the latest snapshot after it has saved the fresh one
checkDrift_LoadAfter(f, d) ==
    IF listSnapshots(f).value = <<>> THEN [fs |-> f, ret |-> Null]
    ELSE [fs |-> takeSnapshot(f, d).fs,
          ret |-> Some(compare(
                      loadSnapshot(takeSnapshot(f, d).fs,
                                   Dates[LastOr({j \in 1..Len(Dates) :
                                                    takeSnapshot(f, d).fs[snapshotPath(Dates[j])] # Null},
                                                1)]).value[1],
                      takeSnapshot(f, d).ret))]

\* checkDrift taking the fresh snapshot before it looks for a saved one
checkDrift_SnapshotFirst(f, d) ==
    [fs |-> takeSnapshot(f, d).fs,
     ret |-> Some(compare(takeSnapshot(f, d).ret, takeSnapshot(f, d).ret))]

\* PersonalityDrift.checkDrift() on calendar day d: the files it leaves and
\* the report it returns, Null or Some(report)
checkDrift(f, d) ==
    LET Compared(latest, cur) == [fs |-> cur.fs, ret |-> Some(compare(latest, cur.ret))]
        FromLatest(latest) ==
            IF latest = Null THEN [fs |-> f, ret |-> Null]
            ELSE Compared(latest[1], takeSnapshot(f, d))
        FromList(snapshots) ==
            IF snapshots = <<>> THEN [fs |-> f, ret |-> Null]
            ELSE FromLatest(loadSnapshot(f, snapshots[Len(snapshots)]).value)
    IN  FromList(listSnapshots(f).value)

\* ------------------------------------------------------------------------
\* SharedMemory.publish / writeState / readState
\* ------------------------------------------------------------------------

\* publish(topic, content, metadata) by the agent agentName on calendar day
\* d: the files it leaves and the message it returns.  metadata is the list
\* of its <<key, value>> entries (<<>>: none given, or {}).  Whatever makes
\* the read of the topic file fail, existing is the title of a new file.
publish(f, agentName, d, topic, content, metadata) ==
    LET \* message.timestamp.slice(0, 16).replace("T", " ")
        time(timestamp) == <<timestamp[1], SP, timestamp[3]>>
        \* Object.entries(metadata).map(([k, v]) => `${k}: ${v}`).join(" | ")
        meta ==
            Join([i \in 1..Len(metadata) |-> metadata[i][1] \o <<":", SP>> \o metadata[i][2]],
                 <<SP, "|", SP>>)
        metaLine(joined) == IF joined = <<>> THEN <<>> ELSE <<NL, ">", SP>> \o joined
        entry ==
            <<"#", "#", "#", SP, "[">> \o time(Now(d)) \o <<"]", SP>> \o agentName
                \o metaLine(meta) \o <<NL, NL>> \o Trim(content)
                \o <<NL, NL, "-", "-", "-", NL>>
    IN  [fs |-> WriteFile(f, topicPath(topic),
                          CatchAll(readFile(f, topicPath(topic)),
                                   <<"#", SP, topic, NL, NL>>).value \o entry),
         ret |-> [agent |-> agentName, topic |-> topic, timestamp |-> Now(d),
                  content |-> content, metadata |-> metadata]]

\* writeState(name, content)
writeState(f, name, content) == WriteFile(f, statePath(name), content)

\* readState(name)
readState(f, name) == CatchAll(readFile(f, statePath(name)), <<>>)

\* ------------------------------------------------------------------------
\* MemoryEngine.search
\* ------------------------------------------------------------------------

\* s.toLowerCase(); the searched texts and the queries hold no upper case
\* letter other than "A" and "B"
LowerCase(s) ==
    [i \in 1..Len(s) |->
        IF s[i] = "A" THEN "a" ELSE IF s[i] = "B" THEN "b" ELSE s[i]]

\* MemoryEngine.search(query, {layers, maxResults, minScore}), the options
\* with their defaults filled in.  A text is searched character by character:
\* the queries and the paragraphs they are looked up in are written with one
\* token per character (the other tokens of a daily log hold no letter).  A
\* score is the fraction <<matched, terms.length>>, minScore a fraction too;
\* fractions are compared by cross-multiplication.
search(f, query, layers, maxResults, minScore) ==
    LET \* s.split(/\s+/), word the piece being read
        RECURSIVE Pieces(_, _)
        Pieces(s, word) ==
            IF s = <<>> THEN <<word>>
            ELSE IF ~IsSpace(Head(s)) THEN Pieces(Tail(s), Append(word, Head(s)))
            ELSE IF Len(s) > 1 /\ IsSpace(s[2]) THEN Pieces(Tail(s), word)
            ELSE <<word>> \o Pieces(Tail(s), <<>>)
        \* scoreText(text): matched, out of terms.length
        scoreText(text, terms) ==
            <<Cardinality({i \in 1..Len(terms) :
                              IndexOf(LowerCase(text), terms[i], 1) # 0}),
              Len(terms)>>
        AtLeast(a, b) == a[1] * b[2] >= b[1] * a[2]
        \* the paragraph that starts at line i: currentPara, each line with
        \* its "\n", up to the next blank line
        ParaFrom(lines, i) ==
            Flatten([k \in 1..(FirstOr({j \in i..Len(lines) : Trim(lines[j]) = <<>>},
                                       Len(lines) + 1) - i) |->
                        lines[i + k - 1] \o <<NL>>])
        \* results.push({...}) for the paragraph at line i when it scores
        Pushed(path, layer, text, i, terms) ==
            IF AtLeast(scoreText(text, terms), minScore)
            THEN <<[layer |-> layer, path |-> path, line |-> i,
                    content |-> SliceChars(Trim(text), 500),
                    score |-> scoreText(text, terms)]>>
            ELSE <<>>
        \* the loop over the lines: a paragraph starts at a line that is not
        \* blank and follows a blank line or starts the file
        Scanned(path, layer, lines, terms) ==
            Flatten([i \in 1..Len(lines) |->
                IF Trim(lines[i]) # <<>> /\ (i = 1 \/ Trim(lines[i - 1]) = <<>>)
                THEN Pushed(path, layer, ParaFrom(lines, i), i, terms)
                ELSE <<>>])
        \* searchFile(path, layer): what it pushes; nothing when the file
        \* cannot be read
        Opened(path, layer, r, terms) ==
            IF r.threw THEN <<>> ELSE Scanned(path, layer, SplitLines(r.value), terms)
        searchFile(path, layer, terms) == Opened(path, layer, readFile(f, path), terms)
        \* for (const date of dates.slice(0, 30))
        Logs(dates, terms) ==
            Flatten([i \in 1..Min(Len(dates), 30) |->
                        searchFile(dailyLogPath(dates[i]), "L3", terms)])
        \* results.sort((a, b) => b.score - a.score), a stable sort
        Sorted(results) ==
            LET Before(j, i) ==
                    \/ results[j].score[1] * results[i].score[2]
                           > results[i].score[1] * results[j].score[2]
                    \/ /\ results[j].score[1] * results[i].score[2]
                              = results[i].score[1] * results[j].score[2]
                       /\ j < i
                Placed(rank) ==
                    [n \in 1..Len(results) |->
                        results[CHOOSE i \in 1..Len(results) : rank[i] = n]]
            IN  Placed([i \in 1..Len(results) |->
                           1 + Cardinality({j \in 1..Len(results) : Before(j, i)})])
        \* .slice(0, maxResults), maxResults >= 0
        Limited(sorted) == Sub(sorted, 1, Min(maxResults, Len(sorted)))
        Searched(terms) ==
            IF terms = <<>> THEN <<>>
            ELSE Limited(Sorted(
                     (IF "L1" \in layers THEN searchFile(acPath, "L1", terms) ELSE <<>>)
                     \o (IF "L2" \in layers THEN searchFile(memPath, "L2", terms) ELSE <<>>)
                     \o (IF "L3" \in layers THEN Logs(listDailyLogs(f).value, terms)
                         ELSE <<>>)))
    IN  Searched(SelectSeq(Pieces(LowerCase(query), <<>>), LAMBDA t : Len(Str(t)) > 1))

\* ------------------------------------------------------------------------
\* Callers' inputs
\* ------------------------------------------------------------------------

MaxCaptures == 12
MaxSpecial == 1
\* exploration stops at an Active Context longer than this many tokens
MaxDocLen == 250

Stamp == <<Dates[1], "T", "10:00", ":30.000Z">>

\* the k-th ordinary snapshot: "Thought k", as in the auto-archive test
PlainSnapshot(k) ==
    LET \* `${i}`
        NumText ==
            IF k < 10 THEN <<Digits[k + 1]>>
            ELSE <<Digits[(k \div 10) + 1], Digits[(k % 10) + 1]>>
    IN  [vibe |-> <<Vibes[((k - 1) % 2) + 1]>>, timestamp |-> Stamp,
         summary |-> <<"Thought", SP>> \o NumText, trigger |-> <<>>]

\* snapshots with a trigger, and with "$" in the summary
SpecialSnapshots ==
    {[vibe |-> <<"HEART">>, timestamp |-> Stamp, summary |-> <<"Proud">>,
      trigger |-> <<"tests", SP, "passed">>],
     [vibe |-> <<"STAR">>, timestamp |-> Stamp,
      summary |-> <<"cost", SP, "$", "1", SP, "each">>, trigger |-> <<>>],
     [vibe |-> <<"STAR">>, timestamp |-> Stamp,
      summary |-> <<"R", "$", "$", "&", "D">>, trigger |-> <<>>]}

\* ------------------------------------------------------------------------
\* Actions
\* ------------------------------------------------------------------------

Explorable == Len(ReadOrEmpty(fs, acPath)) <= MaxDocLen

Done(op, arg, ret) == [op |-> op, arg |-> arg, ret |-> ret, pre |-> fs, day |-> today]

Capture(snapshot) ==
    /\ Len(captured) < MaxCaptures
    /\ Explorable
    /\ fs' = capture(fs, today, snapshot)
    /\ captured' = Append(captured, snapshot)
    /\ last' = Done("capture", snapshot, <<>>)
    /\ UNCHANGED <<today, direct, calls, unreadable>>

CapturePlain == Capture(PlainSnapshot(Len(captured) + 1))

\* a special snapshot is passed at the first, the sixth or the eleventh call
CaptureSpecial ==
    /\ Cardinality({i \in 1..Len(captured) : captured[i] \in SpecialSnapshots})
           < MaxSpecial
    /\ Len(captured) + 1 \in {1, 6, 11}
    /\ \E s \in SpecialSnapshots : Capture(s)

Archive ==
    LET \* archive() returns r
        Archived(r) ==
            /\ fs' = r.fs
            /\ last' = Done("archive", <<>>, r.ret)
    IN
    /\ Explorable
    /\ Archived(archive(fs, today))
    /\ direct' = TRUE
    /\ UNCHANGED <<today, captured, calls, unreadable>>

Init ==
    /\ fs = [p \in Paths |-> Null]
    /\ today = Dates[1]
    /\ captured = <<>>
    /\ direct = FALSE
    /\ calls = <<>>
    /\ unreadable = {}
    /\ last = [op |-> "init", arg |-> <<>>, ret |-> <<>>, pre |-> fs, day |-> today]

Next == CapturePlain \/ CaptureSpecial \/ Archive

Spec == Init /\ [][Next]_vars

\* ------------------------------------------------------------------------
\* SpecEdit: section updates, captures and archives on a shared Active Context
\* ------------------------------------------------------------------------

MaxCalls == 3

Status == <<"Status">>
Tasks == <<"Tasks">>
Notes == <<"Notes">>

\* the titles updateActiveContextSection is called with
Titles == {Status, Tasks, VIBE_SECTION}

\* the section contents it is called with: one line, two lines, a
\* sub-heading, an amount of money
Contents ==
    {<<"New", SP, "status">>,
     <<"step", SP, "one", NL, "step", SP, "two">>,
     <<"#", "#", "#", SP, "Status", NL, "blocked">>,
     <<"$", "1", SP, "fee">>}

\* the document of the section-update test (memory.test.ts)
TestDoc ==
    <<"#", SP, "Context", NL, NL>>
        \o H2 \o Status \o <<NL, "Old", SP, "status", NL, NL>>
        \o H2 \o Tasks \o <<NL, "Some", SP, "tasks", NL>>

\* a hand-written Active Context: a Tasks section with a Status sub-heading,
\* a Status section, six vibes, a Notes section
LongDoc ==
    H2 \o Tasks \o <<NL, "#", "#", "#", SP, "Status", NL, "blocked", NL, NL>>
        \o H2 \o Status \o <<NL, "Old", SP, "status", NL, NL>>
        \o H2 \o VIBE_SECTION \o <<NL, NL>>
        \o Join([k \in 1..6 |-> formatVibeLine(PlainSnapshot(k))], <<NL>>)
        \o <<NL, NL>> \o H2 \o Notes \o <<NL, "keep", SP, "me", NL>>

\* MemoryEngine.updateActiveContextSection: the files it leaves
updateActiveContextSection(f, sectionTitle, content) ==
    writeActiveContext(f, UpdatedSection(readActiveContext(f).value, sectionTitle, content))

\* a call made by the caller, recorded
Call(op, arg, ret, f2) ==
    /\ Len(calls) < MaxCalls
    /\ Explorable
    /\ fs' = f2
    /\ last' = Done(op, arg, ret)
    /\ calls' = Append(calls, [op |-> op, arg |-> arg])
    /\ UNCHANGED <<today, unreadable>>

EditWrite ==
    /\ \E doc \in {TestDoc, LongDoc} : Call("writeActiveContext", doc, <<>>, writeActiveContext(fs, doc))
    /\ UNCHANGED <<captured, direct>>

EditUpdate ==
    /\ \E t \in Titles, c \in Contents :
          Call("updateActiveContextSection", [title |-> t, content |-> c], <<>>,
               updateActiveContextSection(fs, t, c))
    /\ UNCHANGED <<captured, direct>>

EditCapture ==
    LET EditCaptureOf(s) ==
            /\ Call("capture", s, <<>>, capture(fs, today, s))
            /\ captured' = Append(captured, s)
            /\ UNCHANGED direct
    IN  EditCaptureOf(PlainSnapshot(Len(captured) + 1))

EditArchive ==
    LET EditArchived(r) == Call("archive", <<>>, r.ret, r.fs)
    IN
    /\ EditArchived(archive(fs, today))
    /\ direct' = TRUE
    /\ UNCHANGED captured

NextEdit == EditWrite \/ EditUpdate \/ EditCapture \/ EditArchive

SpecEdit == Init /\ [][NextEdit]_vars

\* ------------------------------------------------------------------------
\* SpecFiles: whole-file writes and reads, starting on an empty base directory
\* ------------------------------------------------------------------------

MaxWrites == 2

\* the contents written: the empty string, a line of text, a text ending in
\* half an emoji, a document with vibes
FileContents ==
    {<<>>,
     <<"I", SP, "am", SP, "Sia", NL>>,
     <<"cut", SP, "here", SP, LoneSurrogate>>,
     LongDoc}

\* a whole-file write, recorded in calls
Wrote(op, content, f2) ==
    /\ Len(calls) < MaxWrites
    /\ fs' = f2
    /\ last' = Done(op, content, Returned(<<>>))
    /\ calls' = Append(calls, [op |-> op, arg |-> content])
    /\ UNCHANGED <<today, captured, direct, unreadable>>

\* a read: the files stay, the outcome is what the caller gets
Read(op, arg, outcome) ==
    /\ last' = Done(op, arg, outcome)
    /\ UNCHANGED <<fs, today, captured, direct, calls, unreadable>>

WriteSoul == \E c \in FileContents : Wrote("writeSoul", c, writeSoul(fs, c))
WriteActiveContext ==
    \E c \in FileContents : Wrote("writeActiveContext", c, writeActiveContext(fs, c))
WriteMemory == \E c \in FileContents : Wrote("writeMemory", c, writeMemory(fs, c))

ReadSoul == Read("readSoul", <<>>, readSoul(fs))
ReadActiveContext == Read("readActiveContext", <<>>, readActiveContext(fs))
ReadMemory == Read("readMemory", <<>>, readMemory(fs))
ReadDailyLog ==
    \E i \in 1..Len(Dates) : Read("readDailyLog", Dates[i], readDailyLog(fs, Dates[i]))
ReadDiary ==
    \E i \in 1..Len(Dates) : Read("readDiary", Dates[i], readDiary(fs, Dates[i]))
ListDailyLogs == Read("listDailyLogs", <<>>, listDailyLogs(fs))
ReadRecent ==
    \E limit \in {0, 1, 5}, filter \in {<<>>, <<"FIRE">>} :
        Read("readRecent", [limit |-> limit, filter |-> filter],
             readRecent(fs, limit, filter))
Current == Read("current", <<>>, current(fs))
ListSnapshots == Read("listSnapshots", <<>>, listSnapshots(fs))
LoadSnapshot ==
    \E i \in 1..Len(Dates) : Read("loadSnapshot", Dates[i], loadSnapshot(fs, Dates[i]))
ReadTopic == \E t \in Topics : Read("read", t, read(fs, t))

NextFiles ==
    \/ WriteSoul \/ WriteActiveContext \/ WriteMemory
    \/ ReadSoul \/ ReadActiveContext \/ ReadMemory
    \/ ReadDailyLog \/ ReadDiary \/ ListDailyLogs
    \/ ReadRecent \/ Current
    \/ ListSnapshots \/ LoadSnapshot
    \/ ReadTopic

SpecFiles == Init /\ [][NextFiles]_vars

\* ------------------------------------------------------------------------
\* SpecFaults: whole-file writes, reads, and an operating system that refuses
\* to read some paths
\* ------------------------------------------------------------------------

MaxRefused == 2

\* the paths the five text reads open
ReadPaths ==
    {soulPath, acPath, memPath}
        \cup {dailyLogPath(Dates[i]) : i \in 1..Len(Dates)}
        \cup {diaryPath(Dates[i]) : i \in 1..Len(Dates)}

\* the file's or its directory's permissions are taken away (chmod)
Refuse ==
    /\ Cardinality(unreadable) < MaxRefused
    /\ \E p \in ReadPaths \ unreadable : unreadable' = unreadable \cup {p}
    /\ UNCHANGED <<fs, today, last, captured, direct, calls>>

NextFaults ==
    \/ WriteSoul \/ WriteActiveContext \/ WriteMemory
    \/ Refuse
    \/ ReadSoul \/ ReadActiveContext \/ ReadMemory \/ ReadDailyLog \/ ReadDiary

SpecFaults == Init /\ [][NextFaults]_vars

\* ------------------------------------------------------------------------
\* SpecJournal: appends to Curated Memory and to the daily log, over two
\* calendar days, with reads that the operating system may refuse
\* ------------------------------------------------------------------------

MaxEntries == 3

\* the entries appendDailyLog is called with: stamped today or tomorrow, with
\* and without tags, with and without white space around the content
LogEntries ==
    {[timestamp |-> Stamp, content |-> <<"First", SP, "day">>, tags |-> <<>>],
     [timestamp |-> <<Dates[2], "T", "09:15", ":00.000Z">>,
      content |-> <<SP, "Fixed", SP, "it", NL, "at", SP, "last", NL>>,
      tags |-> <<<<"work">>, <<"idea">>>>]}

\* the contents appendMemory is called with, and those writeMemory seeds
MemoryNotes == {<<"lesson", SP, "one">>, <<SP, "x", NL>>}
MemorySeeds == {<<"#", SP, "Memory", NL, NL, "facts">>, <<"facts", NL, NL, NL, NL, NL, NL>>}

\* a call recorded with the day it was made on
Journal(op, arg, f2) ==
    /\ Len(calls) < MaxEntries
    /\ fs' = f2
    /\ last' = Done(op, arg, <<>>)
    /\ calls' = Append(calls, [op |-> op, arg |-> arg, day |-> today])
    /\ UNCHANGED <<today, captured, direct, unreadable>>

AppendDailyLog ==
    \E e \in LogEntries : Journal("appendDailyLog", e, appendDailyLog(fs, today, e))

AppendMemory ==
    \E c \in MemoryNotes : Journal("appendMemory", c, appendMemory(fs, c))

SeedMemory ==
    \E c \in MemorySeeds : Journal("writeMemory", c, writeMemory(fs, c))

\* midnight (UTC) passes
Tick ==
    /\ today = Dates[1]
    /\ today' = Dates[2]
    /\ UNCHANGED <<fs, last, captured, direct, calls, unreadable>>

NextJournal == AppendDailyLog \/ AppendMemory \/ SeedMemory \/ Tick \/ Refuse

SpecJournal == Init /\ [][NextJournal]_vars

\* ------------------------------------------------------------------------
\* SpecDrift: snapshots and drift checks between calls that change what a
\* snapshot measures, over two calendar days
\* ------------------------------------------------------------------------

MaxDriftCalls == 4

\* a call recorded with what it returned and the day it was made on; r is
\* the files it leaves and its return value
DriftCall(op, arg, r) ==
    /\ Len(calls) < MaxDriftCalls
    /\ fs' = r.fs
    /\ last' = Done(op, arg, r.ret)
    /\ calls' = Append(calls, [op |-> op, arg |-> arg, ret |-> r.ret, day |-> today])
    /\ UNCHANGED <<today, captured, direct, unreadable>>

TakeSnapshot == DriftCall("takeSnapshot", <<>>, takeSnapshot(fs, today))

CheckDrift == DriftCall("checkDrift", <<>>, checkDrift(fs, today))

\* a call of MemoryEngine or VibeEngine that writes: appendMemory,
\* writeMemory, writeSoul, appendDailyLog or capture
Mutate ==
    LET Left(op, arg, f2) == DriftCall(op, arg, [fs |-> f2, ret |-> <<>>])
    IN  \/ \E c \in MemoryNotes : Left("appendMemory", c, appendMemory(fs, c))
        \/ \E c \in MemorySeeds : Left("writeMemory", c, writeMemory(fs, c))
        \/ \E c \in {<<"#", SP, "Soul">>} : Left("writeSoul", c, writeSoul(fs, c))
        \/ \E e \in {[timestamp |-> Stamp, content |-> <<"First", SP, "day">>,
                      tags |-> <<>>]} :
               Left("appendDailyLog", e, appendDailyLog(fs, today, e))
        \/ \E v \in {PlainSnapshot(1)} : Left("capture", v, capture(fs, today, v))

NextDrift == TakeSnapshot \/ CheckDrift \/ Mutate \/ Tick

SpecDrift == Init /\ [][NextDrift]_vars

\* ------------------------------------------------------------------------
\* SpecCompare: compare on pairs of snapshots
\* ------------------------------------------------------------------------

\* the snapshots compare is called with: histograms without entry, with one
\* most frequent tag, with a tie, with a tag that has no label, and with a
\* tag that names a member of Object.prototype
Snapshots ==
    {[timestamp |-> Now(Dates[1]), soulHash |-> hash(<<"#", SP, "Soul">>),
      memorySize |-> size, diaryCount |-> Len(themes),
      vibeDistribution |-> histogram, topThemes |-> themes] :
        size \in {0, 2048},
        histogram \in {<<>>,
                       <<<<"FIRE", 2>>, <<"THOUGHT", 1>>>>,
                       <<<<"SLEEPY", 1>>, <<"FIRE", 1>>>>,
                       <<<<"curious", 1>>>>,
                       <<<<"constructor", 1>>>>},
        themes \in {<<>>, <<"facts">>}}

Compare ==
    /\ \E from \in Snapshots, to \in Snapshots :
           last' = Done("compare", <<from, to>>, compare(from, to))
    /\ UNCHANGED <<fs, today, captured, direct, calls, unreadable>>

SpecCompare == Init /\ [][Compare]_vars

\* ------------------------------------------------------------------------
\* SpecSearch: search over an Active Context, a Curated Memory and up to 32
\* daily logs
\* ------------------------------------------------------------------------

\* the texts written to Active Context and to Curated Memory, one token per
\* character: "ab zz\nb\n\n \nzz\n\nAB" and "zz\n\nab\n"
SearchDocs ==
    <<<<"a", "b", SP, "z", "z", NL, "b", NL, NL, SP, NL, "z", "z", NL, NL, "A", "B">>,
      <<"z", "z", NL, NL, "a", "b", NL>>>>

\* the queries: "ab b", " ab zz", "Ab ab zz" and "a  "
Queries ==
    {<<"a", "b", SP, "b">>, <<SP, "a", "b", SP, "z", "z">>,
     <<"A", "b", SP, "a", "b", SP, "z", "z">>, <<"a", SP, SP>>}

\* the content of the entry logged on the i-th past day: "ab zz" on the
\* first, then "ab" and "zz b" in turn
PastContent(i) ==
    IF i = 1 THEN <<"a", "b", SP, "z", "z">>
    ELSE IF i % 2 = 0 THEN <<"a", "b">> ELSE <<"z", "z", SP, "b">>

\* writeActiveContext(doc) or writeMemory(doc)
Fill ==
    /\ \/ /\ fs[acPath] = Null
          /\ fs' = writeActiveContext(fs, SearchDocs[1])
          /\ last' = Done("writeActiveContext", SearchDocs[1], <<>>)
       \/ /\ fs[memPath] = Null
          /\ fs' = writeMemory(fs, SearchDocs[2])
          /\ last' = Done("writeMemory", SearchDocs[2], <<>>)
    /\ UNCHANGED <<today, captured, direct, calls, unreadable>>

\* the daily logs that the last k days before the first left: on each of
\* them appendDailyLog was called once
PastLogs ==
    /\ \A i \in 1..Len(PastDates) : fs[dailyLogPath(PastDates[i])] = Null
    /\ \E k \in {30, 31} :
           fs' = [p \in Paths |->
                     IF \E i \in (Len(PastDates) - k + 1)..Len(PastDates) :
                            p = dailyLogPath(PastDates[i])
                     THEN appendDailyLog(fs, p[2],
                              [timestamp |-> <<p[2], "T", "10:00", ":00.000Z">>,
                               content |-> PastContent(CHOOSE i \in 1..Len(PastDates) :
                                                           PastDates[i] = p[2]),
                               tags |-> <<>>])[p]
                     ELSE fs[p]]
    /\ last' = Done("appendDailyLog", <<>>, <<>>)
    /\ UNCHANGED <<today, captured, direct, calls, unreadable>>

\* appendDailyLog of "ab" today
LogToday ==
    /\ fs[dailyLogPath(today)] = Null
    /\ fs' = appendDailyLog(fs, today,
                 [timestamp |-> Stamp, content |-> <<"a", "b">>, tags |-> <<>>])
    /\ last' = Done("appendDailyLog", <<>>, <<>>)
    /\ UNCHANGED <<today, captured, direct, calls, unreadable>>

\* search(query, options); an option left out has its default (all three
\* layers, maxResults 10, minScore 0.1).  A search writes nothing, so a
\* second search in a row returns what it would have returned as the first:
\* one is taken per state of the files.
Search ==
    /\ last.op # "search"
    /\ \E query \in Queries,
          options \in {[layers |-> {"L1", "L2", "L3"}, maxResults |-> 10, minScore |-> <<1, 10>>],
                       [layers |-> {"L1", "L2", "L3"}, maxResults |-> 2, minScore |-> <<1, 10>>],
                       [layers |-> {"L3"}, maxResults |-> 10, minScore |-> <<1, 1>>],
                       [layers |-> {"L1", "L2"}, maxResults |-> 10, minScore |-> <<0, 1>>],
                       [layers |-> {"L2", "L3"}, maxResults |-> 0, minScore |-> <<1, 10>>]} :
           last' = Done("search", [query |-> query, options |-> options],
                        search(fs, query, options.layers, options.maxResults,
                               options.minScore))
    /\ UNCHANGED <<fs, today, captured, direct, calls, unreadable>>

NextSearch == Fill \/ PastLogs \/ LogToday \/ Search

SpecSearch == Init /\ [][NextSearch]_vars

\* ------------------------------------------------------------------------
\* SpecResonance: the tone hint between captures
\* ------------------------------------------------------------------------

\* resonance(); it writes nothing, so one call is taken per state of the
\* files
Resonance ==
    /\ last.op # "resonance"
    /\ last' = Done("resonance", <<>>, resonance(fs))
    /\ UNCHANGED <<fs, today, captured, direct, calls, unreadable>>

NextResonance == CapturePlain \/ CaptureSpecial \/ Resonance

SpecResonance == Init /\ [][NextResonance]_vars

\* ------------------------------------------------------------------------
\* SpecPromote: promotions to Curated Memory between captures, with a read
\* of Curated Memory that the operating system may refuse
\* ------------------------------------------------------------------------

MaxPromotes == 2

\* the reflections promote is called with
Reflections == {<<"This", SP, "changed", SP, "me", ".">>, <<SP, "x", NL, NL>>}

\* promote(snapshot, reflection) of a snapshot with a trigger and "$" in its
\* summary
Promote ==
    /\ Len(calls) < MaxPromotes
    /\ \E reflection \in Reflections :
           /\ fs' = promote(fs, [vibe |-> <<"STAR">>, timestamp |-> Stamp,
                                 summary |-> <<"cost", SP, "$", "1", SP, "each">>,
                                 trigger |-> <<"tests", SP, "passed">>], reflection)
           /\ last' = Done("promote", reflection, <<>>)
    /\ calls' = Append(calls, "promote")
    /\ UNCHANGED <<today, captured, direct, unreadable>>

\* capture(snapshot): the first snapshot and the eleventh, whose capture sets
\* off the archival, are tagged with the star
CaptureStarred ==
    Capture(IF Len(captured) + 1 \in {1, 11}
            THEN [vibe |-> <<"STAR">>, timestamp |-> Stamp,
                  summary |-> <<"Big", SP, "day">>, trigger |-> <<>>]
            ELSE PlainSnapshot(Len(captured) + 1))

\* writeMemory(content) on a Curated Memory that does not exist yet
StartMemory ==
    /\ fs[memPath] = Null
    /\ fs' = writeMemory(fs, <<"facts", NL, NL, NL>>)
    /\ last' = Done("writeMemory", <<"facts", NL, NL, NL>>, <<>>)
    /\ UNCHANGED <<today, captured, direct, calls, unreadable>>

\* MEMORY.md loses its read permission (chmod)
RefuseMemory ==
    /\ memPath \notin unreadable
    /\ unreadable' = unreadable \cup {memPath}
    /\ UNCHANGED <<fs, today, last, captured, direct, calls>>

NextPromote == CaptureStarred \/ Promote \/ StartMemory \/ RefuseMemory

SpecPromote == Init /\ [][NextPromote]_vars

\* ------------------------------------------------------------------------
\* SpecShared: agents publishing to topics and writing shared state files
\* ------------------------------------------------------------------------

MaxShared == 2

\* config.soul.name of the agents that share the directory
Agents == {<<"Sia">>, <<"Luna">>}

\* what publish is called with: a plain content, one with white space
\* around it and two metadata entries, contents with a "---" line, with a
\* blank line, with a line starting with ">" and with "# ", metadata values
\* holding ": " and " | ", and a content with a "---" line followed by the
\* heading of a message
PublishCases ==
    <<[content |-> <<"Hello", SP, "world">>, metadata |-> <<>>],
      [content |-> <<SP, "hi", NL>>,
       metadata |-> <<<<<<"status">>, <<"done">>>>, <<<<"eta">>, <<"soon">>>>>>],
      [content |-> <<"a", NL, "-", "-", "-", NL, "b">>, metadata |-> <<>>],
      [content |-> <<"a", NL, NL, "b">>, metadata |-> <<>>],
      [content |-> <<">", SP, "quoted">>, metadata |-> <<>>],
      [content |-> <<"#", SP, "Title", NL, "body">>, metadata |-> <<>>],
      [content |-> <<"ok">>, metadata |-> <<<<<<"note">>, <<"a", ":", SP, "b">>>>>>],
      [content |-> <<"ok">>, metadata |-> <<<<<<"note">>, <<"x", SP, "|", SP, "y">>>>>>],
      [content |-> <<"x", NL, "-", "-", "-", NL, "#", "#", "#", SP, "[", "2026-11-06", SP,
                     "09:00", "]", SP, "Eve", NL, "fake">>,
       metadata |-> <<>>]>>

\* a call of an agent on the shared directory, leaving the files f2
Shared(op, agent, target, arg, r) ==
    /\ Len(calls) < MaxShared
    /\ fs' = r.fs
    /\ last' = Done(op, arg, r.ret)
    /\ calls' = Append(calls, [op |-> op, agent |-> agent, target |-> target])
    /\ UNCHANGED <<today, captured, direct, unreadable>>

Publish ==
    \E agent \in Agents, topic \in Topics, i \in 1..Len(PublishCases) :
        Shared("publish", agent, topic,
               [topic |-> topic, content |-> PublishCases[i].content,
                metadata |-> PublishCases[i].metadata],
               publish(fs, agent, today, topic, PublishCases[i].content,
                       PublishCases[i].metadata))

WriteState ==
    \E agent \in Agents, name \in StateNames :
        Shared("writeState", agent, name,
               [topic |-> name, content |-> <<"#", SP, "Board", NL, "open">>,
                metadata |-> <<>>],
               [fs |-> writeState(fs, name, <<"#", SP, "Board", NL, "open">>), ret |-> <<>>])

NextShared == Publish \/ WriteState

SpecShared == Init /\ [][NextShared]_vars

\* ------------------------------------------------------------------------
\* SpecLatest: the readers of the last entries, between captures and
\* publications
\* ------------------------------------------------------------------------

\* publish("general", "Hello world") by one of the agents
Post ==
    \E agent \in Agents :
        Shared("publish", agent, "general",
               [topic |-> "general", content |-> PublishCases[1].content,
                metadata |-> PublishCases[1].metadata],
               publish(fs, agent, today, "general", PublishCases[1].content,
                       PublishCases[1].metadata))

\* readRecent({limit, filter}) and readLatest(topic, limit); they write
\* nothing, so one read is taken per state of the files
ReadLast ==
    /\ last.op \notin {"readRecent", "readLatest"}
    /\ \/ \E limit \in {0, 1, 5}, filter \in {<<>>, <<"FIRE">>} :
              Read("readRecent", [limit |-> limit, filter |-> filter],
                   readRecent(fs, limit, filter))
       \/ \E limit \in {0, 1, 5} :
              Read("readLatest", [limit |-> limit, filter |-> <<>>],
                   readLatest(fs, "general", limit))

NextLatest == CapturePlain \/ Post \/ ReadLast

SpecLatest == Init /\ [][NextLatest]_vars

\* ------------------------------------------------------------------------
\* SpecCurrent: the current vibe between captures
\* ------------------------------------------------------------------------

\* capture(snapshot) of a snapshot without trigger whose summary ends in
\* a parenthesis: "Shipped (trigger: deadline)".  It is passed at the second
\* or the eleventh call
CaptureParenthesis ==
    /\ Len(captured) + 1 \in {2, 11}
    /\ Capture([vibe |-> <<"HEART">>, timestamp |-> Stamp,
                summary |-> <<"Shipped", SP>> \o TriggerOpen \o <<"deadline", ")">>,
                trigger |-> <<>>])

\* current(); it writes nothing, so one call is taken per state of the
\* files
ReadCurrent ==
    /\ last.op # "current"
    /\ Read("current", <<>>, current(fs))

NextCurrent == CapturePlain \/ CaptureSpecial \/ CaptureParenthesis \/ ReadCurrent

SpecCurrent == Init /\ [][NextCurrent]_vars

\* ------------------------------------------------------------------------
\* SpecRace: calls of the agents that share the base directory, interleaved
\* at their file reads and writes.  calls holds the calls begun: each with
\* its position (pc) and what it has read so far.  An agent awaits its call
\* before it begins another.
\* ------------------------------------------------------------------------

MaxRacers == 2

\* the files as a call saw them: the file at path with the content it read
Seeing_Torn(f, path, seen) ==
    [f EXCEPT ![path] = IF seen = Null \/ f[path] = Null THEN seen
                        ELSE Some(seen[1] \o f[path][1])]

Seeing(f, path, seen) == [f EXCEPT ![path] = seen]

\* the file a call reads and then writes
PathOf(c) ==
    IF c.op = "appendMemory" THEN memPath
    ELSE IF c.op = "appendDailyLog" THEN dailyLogPath(c.day)
    ELSE IF c.op = "publish" THEN topicPath("general")
    ELSE acPath

\* what the call writes to its file, having read the files f
Written(c, f) ==
    IF c.op = "appendMemory" THEN appendMemory(f, c.arg)[memPath]
    ELSE IF c.op = "appendDailyLog"
    THEN appendDailyLog(f, c.day, c.arg)[dailyLogPath(c.day)]
    ELSE IF c.op = "publish"
    THEN publish(f, c.agent, c.day, "general", c.arg, <<>>).fs[topicPath("general")]
    ELSE Some(Utf8(upsertSection(ReadOrEmpty(f, acPath), VIBE_SECTION,
                                 formatVibeLine(c.arg))))

\* an agent without a call in flight begins a call of the kind of the calls
\* begun so far
Begin(op, agent, arg) ==
    /\ Len(calls) < MaxRacers
    /\ \A i \in 1..Len(calls) : calls[i].op = op
    /\ \A i \in 1..Len(calls) : calls[i].agent = agent => calls[i].pc = "done"
    /\ calls' = Append(calls, [op |-> op, agent |-> agent, arg |-> arg, day |-> today,
                               pc |-> "read", seen |-> Null, seenDiary |-> Null])
    /\ UNCHANGED <<fs, today, last, captured, direct, unreadable>>

BeginAppendMemory ==
    \E agent \in Agents, c \in MemoryNotes : Begin("appendMemory", agent, c)

BeginAppendDailyLog ==
    \E agent \in Agents, e \in LogEntries : Begin("appendDailyLog", agent, e)

BeginPublish ==
    \E agent \in Agents :
        Begin("publish", agent, <<"from", SP>> \o agent)

\* capture of the next plain snapshot after those of the documents below
BeginCapture ==
    \E agent \in Agents :
        Begin("capture", agent, PlainSnapshot(MAX_ACTIVE_VIBES + Len(calls) + 1))

\* Active Context with the vibes in Vibe History
VibeDoc(vibes) ==
    <<NL, NL>> \o H2 \o VIBE_SECTION \o <<NL, NL>>
        \o Join(FormatAll(vibes), <<NL>>) \o <<NL>>

\* ten vibes, as ten captures leave them
TenVibes == [i \in 1..MAX_ACTIVE_VIBES |-> PlainSnapshot(i)]

\* the same, the summary of the last being "R$&D"
TenVibesDollar ==
    [TenVibes EXCEPT ![MAX_ACTIVE_VIBES] =
        [vibe |-> <<"STAR">>, timestamp |-> Stamp,
         summary |-> <<"R", "$", "&", "D">>, trigger |-> <<>>]]

\* before any call: Active Context is written with the document
Seed(doc) ==
    /\ calls = <<>>
    /\ fs[acPath] = Null
    /\ fs' = writeActiveContext(fs, doc)
    /\ last' = Done("writeActiveContext", doc, <<>>)
    /\ UNCHANGED <<today, captured, direct, calls, unreadable>>

SeedVibes == Seed(VibeDoc(TenVibes))

SeedDollar == Seed(VibeDoc(TenVibesDollar))

\* call i reads its file
ReadStep ==
    \E i \in 1..Len(calls) :
        /\ calls[i].pc = "read"
        /\ calls' = [calls EXCEPT ![i].seen = fs[PathOf(calls[i])], ![i].pc = "write"]
        /\ UNCHANGED <<fs, today, last, captured, direct, unreadable>>

\* call i writes its file and returns; a capture that wrote more than
\* MAX_ACTIVE_VIBES vibes goes on with archive()
WriteStep ==
    \E i \in 1..Len(calls) :
        /\ calls[i].pc = "write"
        /\ fs' = [fs EXCEPT ![PathOf(calls[i])] =
                      Written(calls[i], Seeing(fs, PathOf(calls[i]), calls[i].seen))]
        /\ calls' = [calls EXCEPT ![i].pc =
                        IF /\ calls[i].op = "capture"
                           /\ Len(parseVibesFromContent(
                                  Written(calls[i], Seeing(fs, acPath, calls[i].seen))[1]))
                                  > MAX_ACTIVE_VIBES
                        THEN "archive" ELSE "done"]
        /\ last' = Done(calls[i].op, i, <<>>)
        /\ UNCHANGED <<today, captured, direct, unreadable>>

\* archive() of call i reads Active Context: it returns 0 when it finds
\* keepCount vibes or fewer
ArchiveRead ==
    \E i \in 1..Len(calls) :
        /\ calls[i].pc = "archive"
        /\ calls' = [calls EXCEPT
                        ![i].seen = fs[acPath],
                        ![i].pc = IF Len(parseVibesFromContent(ReadOrEmpty(fs, acPath)))
                                         <= keepCount
                                  THEN "done" ELSE "diary"]
        /\ UNCHANGED <<fs, today, last, captured, direct, unreadable>>

\* archive() of call i reads today's diary
DiaryRead ==
    \E i \in 1..Len(calls) :
        /\ calls[i].pc = "diary"
        /\ calls' = [calls EXCEPT ![i].seenDiary = fs[diaryPath(today)],
                                  ![i].pc = "diaryWrite"]
        /\ UNCHANGED <<fs, today, last, captured, direct, unreadable>>

\* the files archive() of call i leaves when run on what the call has read
ArchivedBy(c, f) ==
    archive(Seeing(Seeing(f, acPath, c.seen), diaryPath(today), c.seenDiary), today).fs

\* archive() of call i writes the diary
DiaryWrite ==
    \E i \in 1..Len(calls) :
        /\ calls[i].pc = "diaryWrite"
        /\ fs' = [fs EXCEPT ![diaryPath(today)] =
                      ArchivedBy(calls[i], fs)[diaryPath(today)]]
        /\ calls' = [calls EXCEPT ![i].pc = "activeWrite"]
        /\ last' = Done("archive", i, <<>>)
        /\ UNCHANGED <<today, captured, direct, unreadable>>

\* archive() of call i writes Active Context, and the capture returns
ActiveWrite ==
    \E i \in 1..Len(calls) :
        /\ calls[i].pc = "activeWrite"
        /\ fs' = [fs EXCEPT ![acPath] = ArchivedBy(calls[i], fs)[acPath]]
        /\ calls' = [calls EXCEPT ![i].pc = "done"]
        /\ last' = Done("archive", i, <<>>)
        /\ UNCHANGED <<today, captured, direct, unreadable>>

NextRace ==
    \/ BeginAppendMemory \/ BeginAppendDailyLog \/ BeginPublish \/ BeginCapture
    \/ SeedVibes
    \/ ReadStep \/ WriteStep
    \/ ArchiveRead \/ DiaryRead \/ DiaryWrite \/ ActiveWrite

SpecRace == Init /\ [][NextRace]_vars

\* SpecCeiling: captures alone, interleaved, also after a summary with "$&"
NextCeiling ==
    \/ BeginCapture
    \/ SeedVibes \/ SeedDollar
    \/ ReadStep \/ WriteStep
    \/ ArchiveRead \/ DiaryRead \/ DiaryWrite \/ ActiveWrite

SpecCeiling == Init /\ [][NextCeiling]_vars

\* ------------------------------------------------------------------------
\* SpecArchive: one caller; archive() and capture() taken file operation by
\* file operation, any of which may fail and end the call
\* ------------------------------------------------------------------------

\* no call is in flight
Quiet == \A i \in 1..Len(calls) : calls[i].pc \in {"done", "failed"}

\* six vibes, the summary of the last being "cost $1 each"
SixVibesPriced ==
    [i \in 1..(keepCount + 1) |->
        IF i = keepCount + 1
        THEN [vibe |-> <<"STAR">>, timestamp |-> Stamp,
              summary |-> <<"cost", SP, "$", "1", SP, "each">>, trigger |-> <<>>]
        ELSE PlainSnapshot(i)]

SeedPriced == Seed(VibeDoc(SixVibesPriced))

\* archive() is called
BeginArchive ==
    /\ Quiet
    /\ Len(calls) < MaxRacers
    /\ calls' = Append(calls, [op |-> "archive", agent |-> <<"Sia">>, arg |-> <<>>,
                               day |-> today, pc |-> "archive", seen |-> Null,
                               seenDiary |-> Null])
    /\ UNCHANGED <<fs, today, last, captured, direct, unreadable>>

\* capture() is called
BeginCaptureAlone == Quiet /\ BeginCapture

\* the file operation the call in flight waits for is rejected, and the call
\* throws
Fail ==
    \E i \in 1..Len(calls) :
        /\ calls[i].pc \notin {"done", "failed"}
        /\ calls' = [calls EXCEPT ![i].pc = "failed"]
        /\ UNCHANGED <<fs, today, last, captured, direct, unreadable>>

NextArchive ==
    \/ SeedVibes \/ SeedPriced
    \/ BeginArchive \/ BeginCaptureAlone
    \/ ReadStep \/ WriteStep
    \/ ArchiveRead \/ DiaryRead \/ DiaryWrite \/ ActiveWrite
    \/ Fail

SpecArchive == Init /\ [][NextArchive]_vars

\* ------------------------------------------------------------------------
\* SpecDiary: diary entries and archives on one day
\* ------------------------------------------------------------------------

\* the entries appendDiary is called with: time, title, content
DiaryEntries ==
    <<[time |-> <<"09:15">>, title |-> <<"Morning">>,
       content |-> <<"Slept", SP, "well", NL>>],
      [time |-> <<"21:40">>, title |-> <<"Late", SP, "thoughts">>,
       content |-> <<SP, "Two", NL, "lines">>]>>

DiaryAppend ==
    /\ \E i \in 1..Len(DiaryEntries) :
           Call("appendDiary", DiaryEntries[i], <<>>,
                appendDiary(fs, today, DiaryEntries[i].time, DiaryEntries[i].title,
                            DiaryEntries[i].content))
    /\ UNCHANGED <<captured, direct>>

\* today's diary file loses its read permission (chmod)
RefuseDiary ==
    /\ fs[diaryPath(today)] # Null
    /\ diaryPath(today) \notin unreadable
    /\ unreadable' = unreadable \cup {diaryPath(today)}
    /\ UNCHANGED <<fs, today, last, captured, direct, calls>>

NextDiary == EditWrite \/ EditArchive \/ DiaryAppend \/ RefuseDiary

SpecDiary == Init /\ [][NextDiary]_vars

\* ------------------------------------------------------------------------
\* What a reader sees
\* ------------------------------------------------------------------------

\* the lines of a text that are vibe lines, trimmed, in order
VibeLinesOf(text) ==
    LET lines == SplitLines(text)
        trimmed == [i \in 1..Len(lines) |-> Trim(lines[i])]
    IN  SelectSeq(trimmed, LAMBDA l : VibeLineMatch(l) # Null)

\* the vibe lines of the Vibe History section of a files' Active Context
ActiveLinesIn(f) ==
    LET sec == extractSection(ReadOrEmpty(f, acPath), VIBE_SECTION)
    IN  IF sec = Null THEN <<>> ELSE VibeLinesOf(sec[1])

\* readRecent() with a limit that covers the section
ActiveVibesIn(f) == parseVibesFromContent(ReadOrEmpty(f, acPath))

\* the vibe lines of the diary file of day d
DiaryLinesIn(f, d) == VibeLinesOf(ReadOrEmpty(f, diaryPath(d)))

CapturedLines == FormatAll(captured)

\* every element of seq a occurs in seq b
AllIn(a, b) == \A i \in 1..Len(a) : \E j \in 1..Len(b) : b[j] = a[i]

\* ------------------------------------------------------------------------
\* Sections as section 4.1 of the design defines them: a heading is a whole
\* line "## <title>"; its body runs to the next line starting with "## " or
\* to the end of the document.
\* ------------------------------------------------------------------------

KnownTitles == {Status, Tasks, Notes, VIBE_SECTION}

IsHeadingLine(l) == StartsAt(l, 1, H2)

\* the (line) positions of the `## title` headings of doc
HeadingsOf(doc, title) ==
    {i \in 1..Len(SplitLines(doc)) : SplitLines(doc)[i] = H2 \o title}

HasSection(doc, title) == HeadingsOf(doc, title) # {}

\* the first `## title` section of doc: its heading line and its body lines
SectionOf(doc, title) ==
    LET lines == SplitLines(doc)
        hs == HeadingsOf(doc, title)
        i == CHOOSE x \in hs : \A h \in hs : x <= h
        nexts == {j \in (i + 1)..Len(lines) : IsHeadingLine(lines[j])}
        j == IF nexts = {} THEN Len(lines) + 1
             ELSE CHOOSE x \in nexts : \A h \in nexts : x <= h
    IN  [heading |-> lines[i], body |-> Sub(lines, i + 1, j - 1)]

\* the heading lines of doc, in document order
HeadingLines(doc) == SelectSeq(SplitLines(doc), IsHeadingLine)

\* ------------------------------------------------------------------------
\* Claims about the Vibe Engine (Spec)
\* ------------------------------------------------------------------------

\* C1: after every capture() call has returned, the Vibe History section of
\* Active Context holds at most 10 parseable vibe lines.
C1_Ceiling ==
    last.op = "capture" => Len(ActiveVibesIn(fs)) <= MAX_ACTIVE_VIBES

\* C2: after any sequence of capture() and archive() calls on one day from
\* an empty base directory, the archived lines of today's diary, in file order,
\* followed by the active lines are exactly the captured vibes in capture
\* order: nothing lost, nothing duplicated, nothing reordered.
C2_NothingLost ==
    DiaryLinesIn(fs, today) \o ActiveLinesIn(fs) = CapturedLines

\* C3: after n >= 1 capture() calls from an empty base directory, the
\* min(n, 5) most recently captured vibes are the last entries of the Vibe
\* History, in capture order.
C3_RecentKept ==
    (~direct /\ Len(captured) >= 1) =>
        LET k == Min(Len(captured), 5)
        IN  /\ Len(ActiveLinesIn(fs)) >= k
            /\ LastN(ActiveLinesIn(fs), k) = LastN(CapturedLines, k)

NoDollar(snapshot) ==
    \A i \in 1..Len(snapshot.summary \o snapshot.trigger) :
        (snapshot.summary \o snapshot.trigger)[i] # "$"

C5_ArchiveSplit ==
    last.op = "archive" =>
        LET pre == ActiveVibesIn(last.pre)
            n == Len(pre)
        IN  /\ last.ret = Max(0, n - 5)
            /\ ActiveVibesIn(fs) = LastN(pre, Min(n, 5))
            /\ DiaryLinesIn(fs, today)
                  = DiaryLinesIn(last.pre, today) \o FormatAll(Sub(pre, 1, n - 5))

\* ------------------------------------------------------------------------
\* Claims about section editing (SpecEdit)
\* ------------------------------------------------------------------------

\* the call that was last made rewrites a section of Active Context
IsSectionEdit == last.op \in {"updateActiveContextSection", "capture", "archive"}

\* the title of the section the last call rewrites
EditedTitle ==
    IF last.op = "updateActiveContextSection" THEN last.arg.title ELSE VIBE_SECTION

PreDoc == ReadOrEmpty(last.pre, acPath)
PostDoc == ReadOrEmpty(fs, acPath)

\* C6: for an Active Context containing sections A and B (A # B),
\* updateActiveContextSection(A, c), and the Vibe History rewrite done by
\* capture() and archive() (A = Vibe History), leave B's heading line and
\* B's body unchanged.
C6_Isolation ==
    IsSectionEdit =>
        \A B \in KnownTitles \ {EditedTitle} :
            (HasSection(PreDoc, EditedTitle) /\ HasSection(PreDoc, B)) =>
                /\ HasSection(PostDoc, B)
                /\ SectionOf(PostDoc, B) = SectionOf(PreDoc, B)

\* the body of doc's section title as one text, without the blank lines
\* around it
BodyText(doc, title) == Trim(Join(SectionOf(doc, title).body, <<NL>>))

\* C7: when Active Context already contains a `## T` section,
\* updateActiveContextSection(T, c) substitutes its body: afterwards the
\* section's body is exactly c (blank lines around it aside), with no line of
\* the old body left in it.
C7_BodySubstituted ==
    (last.op = "updateActiveContextSection" /\ HasSection(PreDoc, last.arg.title)) =>
        /\ HasSection(PostDoc, last.arg.title)
        /\ BodyText(PostDoc, last.arg.title) = Trim(last.arg.content)

\* no call so far wrote the whole document: it grew from the empty one by
\* section updates, captures and archives
GrownFromEmpty == \A i \in 1..Len(calls) : calls[i].op # "writeActiveContext"

\* text holds no line starting with "## "
NoH2Line(text) ==
    \A i \in 1..Len(SplitLines(text)) : ~IsHeadingLine(SplitLines(text)[i])

\* every section content passed so far is free of "## " lines
CleanContents ==
    \A i \in 1..Len(calls) :
        calls[i].op = "updateActiveContextSection" => NoH2Line(calls[i].arg.content)

\* the heading lines of post that pre already had, in the order post has them
OldHeadings(pre, post) ==
    SelectSeq(HeadingLines(post),
              LAMBDA h : \E i \in 1..Len(HeadingLines(pre)) : HeadingLines(pre)[i] = h)

\* C8: after any sequence of updateActiveContextSection(), capture() and
\* archive() calls starting from an empty Active Context, with contents
\* holding no `## ` lines, the document holds at most one `## T` heading for
\* each title T, and the sections already present keep their relative order.
C8_OneHeadingPerTitle ==
    (GrownFromEmpty /\ CleanContents) =>
        /\ \A T \in KnownTitles : Cardinality(HeadingsOf(PostDoc, T)) <= 1
        /\ OldHeadings(PreDoc, PostDoc) = HeadingLines(PreDoc)

\* ------------------------------------------------------------------------
\* Claims about whole-file writes and reads (SpecFiles)
\* ------------------------------------------------------------------------

\* the write that the read named op reads back
WriteOf(op) ==
    IF op = "readSoul" THEN "writeSoul"
    ELSE IF op = "readActiveContext" THEN "writeActiveContext"
    ELSE "writeMemory"

\* the positions in calls of the writes named w
WritesOf(w) == {i \in 1..Len(calls) : calls[i].op = w}

\* the content of the latest write named w
LastWritten(w) == calls[LastOr(WritesOf(w), 0)].arg

IsWholeRead == last.op \in {"readSoul", "readActiveContext", "readMemory"}

WellFormed(content) == \A i \in 1..Len(content) : content[i] # LoneSurrogate

\* C9: after writeSoul(c), writeActiveContext(c) or writeMemory(c), the
\* following readSoul(), readActiveContext() or readMemory() returns content
\* identical to c, whatever was written to the other two files meanwhile.
C9_ByteIdentical ==
    (IsWholeRead /\ WritesOf(WriteOf(last.op)) # {}) =>
        /\ ~last.ret.threw
        /\ last.ret.value = LastWritten(WriteOf(last.op))

\* C9 as amended: the read returns c with every unpaired surrogate replaced
\* by U+FFFD, hence c itself when c is well-formed Unicode, whatever was
\* written to the other two files meanwhile; a file never written reads as
\* the empty string.
C9_RoundTrip ==
    IsWholeRead =>
        /\ ~last.ret.threw
        /\ WritesOf(WriteOf(last.op)) = {} => last.ret.value = <<>>
        /\ WritesOf(WriteOf(last.op)) # {} =>
              /\ last.ret.value = Utf8(LastWritten(WriteOf(last.op)))
              /\ WellFormed(LastWritten(WriteOf(last.op))) =>
                    last.ret.value = LastWritten(WriteOf(last.op))

\* the soul was written, then the memory, with different non-empty
\* well-formed texts, and readSoul() gave the soul text back
C9_Witness ==
    /\ last.op = "readSoul"
    /\ Len(calls) = 2
    /\ calls[1].op = "writeSoul"
    /\ calls[2].op = "writeMemory"
    /\ calls[1].arg # calls[2].arg
    /\ calls[1].arg # <<>>
    /\ WellFormed(calls[1].arg)
    /\ last.ret.value = calls[1].arg

Reads ==
    {"readSoul", "readActiveContext", "readMemory", "readDailyLog", "readDiary",
     "listDailyLogs", "readRecent", "listSnapshots", "read", "current",
     "loadSnapshot"}

\* C10: on a base directory where nothing was written, readSoul,
\* readActiveContext, readMemory, readDailyLog and readDiary return the empty
\* string, listDailyLogs, readRecent, listSnapshots and read(topic) return the
\* empty list, current() and loadSnapshot(id) return null; none raises an
\* error.  (Each operation has one declared return type, whose empty value -
\* "", [] or null - is <<>> here.)
C10_AbsenceIsEmpty ==
    (last.op \in Reads /\ \A p \in Paths : last.pre[p] = Null) =>
        /\ ~last.ret.threw
        /\ last.ret.value = <<>>

\* a directory listing and a snapshot load were tried on the empty base
\* directory
C10_Witness ==
    /\ last.op \in {"listDailyLogs", "loadSnapshot"}
    /\ \A p \in Paths : fs[p] = Null
    /\ ~last.ret.threw

\* ------------------------------------------------------------------------
\* Claims about failing reads (SpecFaults)
\* ------------------------------------------------------------------------

\* the path the last read opened
PathRead ==
    IF last.op = "readSoul" THEN soulPath
    ELSE IF last.op = "readActiveContext" THEN acPath
    ELSE IF last.op = "readMemory" THEN memPath
    ELSE IF last.op = "readDailyLog" THEN dailyLogPath(last.arg)
    ELSE diaryPath(last.arg)

IsTextRead ==
    last.op \in {"readSoul", "readActiveContext", "readMemory", "readDailyLog",
                 "readDiary"}

\* C11: a read (readSoul, readActiveContext, readMemory, readDailyLog,
\* readDiary) whose file read fails for a reason other than "file not found"
\* propagates the failure to the caller; a missing file reads as the empty
\* string.
C11_FailurePropagates ==
    IsTextRead =>
        /\ PathRead \in unreadable => last.ret.threw
        /\ (PathRead \notin unreadable /\ fs[PathRead] = Null) =>
              (~last.ret.threw /\ last.ret.value = <<>>)

\* ------------------------------------------------------------------------
\* Claims about appends (SpecJournal)
\* ------------------------------------------------------------------------

\* the bytes of a file as text, the empty text when there is no such file
FileText(f, path) == IF f[path] = Null THEN <<>> ELSE f[path][1]

IsPrefix(a, b) == Len(a) <= Len(b) /\ Sub(b, 1, Len(a)) = a

\* the block the design gives a daily-log entry: a "### HH:MM" heading with
\* the tags in brackets, the trimmed content, a horizontal rule
EntryBlock(e) ==
    <<"#", "#", "#", SP, e.timestamp[3]>>
        \o (IF e.tags = <<>> THEN <<>>
            ELSE <<SP, "[">> \o Join(e.tags, <<",", SP>>) \o <<"]">>)
        \o <<NL, NL>> \o Trim(e.content) \o <<NL, NL, "-", "-", "-", NL>>

\* the entries appended on day d so far, in call order
EntriesOn(d) ==
    LET hits == SelectSeq(calls, LAMBDA c : c.op = "appendDailyLog" /\ c.day = d)
    IN  [i \in 1..Len(hits) |-> hits[i].arg]

\* C12: appendDailyLog called k times on the same date yields a file with one
\* `# <date>` title line followed by the k entry blocks in call order, and
\* every call leaves the file's previous content as an unchanged prefix.
C12_AppendOrder ==
    /\ \A i \in 1..Len(Dates) :
          EntriesOn(Dates[i]) # <<>> =>
              FileText(fs, dailyLogPath(Dates[i]))
                  = <<"#", SP, Dates[i], NL, NL>>
                        \o Join([k \in 1..Len(EntriesOn(Dates[i])) |->
                                    EntryBlock(EntriesOn(Dates[i])[k])], <<>>)
    /\ last.op = "appendDailyLog" =>
          IsPrefix(FileText(last.pre, dailyLogPath(last.day)),
                   FileText(fs, dailyLogPath(last.day)))

\* C13: appendDailyLog(entry) changes only the log file of the clock's
\* current date, whatever entry.timestamp says; the log file of every other
\* date stays as it was, and no other operation changes a log file.
C13_DatePartitioned ==
    \A i \in 1..Len(Dates) :
        (last.op # "appendDailyLog" \/ Dates[i] # last.day) =>
            fs[dailyLogPath(Dates[i])] = last.pre[dailyLogPath(Dates[i])]

\* an entry stamped with yesterday's date was appended today, while
\* yesterday's log exists
C13_Witness ==
    /\ last.op = "appendDailyLog"
    /\ last.day = Dates[2]
    /\ last.arg.timestamp[1] = Dates[1]
    /\ fs[dailyLogPath(Dates[1])] # Null
    /\ fs[dailyLogPath(Dates[2])] # last.pre[dailyLogPath(Dates[2])]

\* C14: appendMemory(c) leaves the previous Curated Memory, its trailing
\* white space trimmed, as an unchanged prefix of the new content, which
\* continues with a blank line, c trimmed, and a newline.
C14_MemoryOnlyGrows ==
    last.op = "appendMemory" =>
        FileText(fs, memPath)
            = TrimEnd(FileText(last.pre, memPath)) \o <<NL, NL>>
                  \o Trim(last.arg) \o <<NL>>

\* ------------------------------------------------------------------------
\* C15 (SpecDrift)
\* ------------------------------------------------------------------------

Contains(text, pat) == IndexOf(text, pat, 1) # 0

\* the i-th, (i+1)-th and (i+2)-th calls are takeSnapshot, appendMemory with
\* at least one byte, takeSnapshot
AppendBetweenSnapshots(i) ==
    /\ i + 2 <= Len(calls)
    /\ calls[i].op = "takeSnapshot"
    /\ calls[i + 1].op = "appendMemory"
    /\ ByteLength(calls[i + 1].arg) >= 1
    /\ calls[i + 2].op = "takeSnapshot"

\* C15: when appendMemory is called with at least one byte between two
\* takeSnapshot calls and nothing else is called in between, compare(first,
\* second) has memoryGrowth > 0 and a summary that contains "Memory grew",
\* whatever Curated Memory held before.
C15_GrowthDetected ==
    \A i \in 1..Len(calls) :
        AppendBetweenSnapshots(i) =>
            /\ compare(calls[i].ret, calls[i + 2].ret).memoryGrowth > 0
            /\ Contains(compare(calls[i].ret, calls[i + 2].ret).summary,
                        <<"Memory", SP, "grew">>)

\* ------------------------------------------------------------------------
\* C16 (SpecDrift)
\* ------------------------------------------------------------------------

\* the i-th and the (i+1)-th calls are takeSnapshot: nothing was called in
\* between
BackToBack(i) ==
    /\ i + 1 <= Len(calls)
    /\ calls[i].op = "takeSnapshot"
    /\ calls[i + 1].op = "takeSnapshot"

\* C16: takeSnapshot changes nothing that it measures.  Two snapshots taken
\* one right after the other have the same soulHash, memorySize, diaryCount
\* (the snapshot file is not counted as a daily log), vibeDistribution and
\* topThemes, and compare of the two gives soulChanged = false, memoryGrowth
\* = 0 and newDiaryEntries = 0.
C16_SnapshotMeasuresOnly ==
    \A i \in 1..Len(calls) :
        BackToBack(i) =>
            /\ calls[i + 1].ret.soulHash = calls[i].ret.soulHash
            /\ calls[i + 1].ret.memorySize = calls[i].ret.memorySize
            /\ calls[i + 1].ret.diaryCount = calls[i].ret.diaryCount
            /\ calls[i + 1].ret.vibeDistribution = calls[i].ret.vibeDistribution
            /\ calls[i + 1].ret.topThemes = calls[i].ret.topThemes
            /\ ~compare(calls[i].ret, calls[i + 1].ret).soulChanged
            /\ compare(calls[i].ret, calls[i + 1].ret).memoryGrowth = 0
            /\ compare(calls[i].ret, calls[i + 1].ret).newDiaryEntries = 0

\* two snapshots right after each other, of a state with a daily log and a
\* Curated Memory, the first one leaving the first snapshot file
C16_Witness ==
    /\ BackToBack(3)
    /\ calls[3].ret.diaryCount = 1
    /\ calls[3].ret.memorySize > 0
    /\ calls[3].ret.topThemes # <<>>
    /\ listSnapshots(fs).value = <<calls[3].day>>

\* ------------------------------------------------------------------------
\* C17, C18, C19 (SpecCompare)
\* ------------------------------------------------------------------------

\* the two snapshots of a compare call agree on everything compare looks at,
\* and neither has a vibe
NothingDrifted(from, to) ==
    /\ from.soulHash = to.soulHash
    /\ from.memorySize = to.memorySize
    /\ from.diaryCount = to.diaryCount
    /\ from.topThemes = to.topThemes
    /\ from.vibeDistribution = <<>>
    /\ to.vibeDistribution = <<>>

\* C17: compare(from, to) returns the summary "No significant drift
\* detected." when no drift clause applies: same soul hash, same memory size,
\* same diary count, same themes and no vibe in either histogram, as for two
\* snapshots taken one right after the other.
C17_NoDriftSummary ==
    last.op = "compare" /\ NothingDrifted(last.arg[1], last.arg[2]) =>
        last.ret.summary = <<"No", SP, "significant", SP, "drift", SP, "detected.">>

\* C18: compare(from, to).vibeTrend is the empty string when neither
\* histogram has an entry.
C18_EmptyTrend ==
    /\ last.op = "compare"
    /\ last.arg[1].vibeDistribution = <<>>
    /\ last.arg[2].vibeDistribution = <<>>
    => last.ret.vibeTrend = <<>>

\* the most frequent tag of a histogram with an entry, the first one in its
\* order among the most frequent
MostFrequent(h) ==
    h[CHOOSE i \in 1..Len(h) :
          \A j \in 1..Len(h) : h[j][2] <= h[i][2] /\ (j < i => h[j][2] < h[i][2])][1]

\* the fixed label of a tag, the tag itself when it has none
Label(tag) ==
    CASE tag = "FIRE" -> "energetic"
      [] tag = "THOUGHT" -> "reflective"
      [] tag = "SLEEPY" -> "calm"
      [] tag = "HEART" -> "warm"
      [] tag = "STAR" -> "inspired"
      [] OTHER -> tag

\* the trend the four cases give for two histograms, one at least with an
\* entry
TrendOf(from, to) ==
    IF from = <<>> THEN <<"becoming", SP, Label(MostFrequent(to))>>
    ELSE IF to = <<>> THEN <<"emotional", SP, "data", SP, "fading">>
    ELSE IF MostFrequent(from) = MostFrequent(to)
         THEN <<"consistently", SP, Label(MostFrequent(from))>>
    ELSE <<"shifting", SP, "from", SP, Label(MostFrequent(from)), SP, "to", SP,
           Label(MostFrequent(to))>>

\* C19: with the dominant tag of a histogram its most frequent tag (the
\* first in its order on a tie), compare(from, to).vibeTrend is "becoming
\* <tone>" when only to has a dominant tag, "emotional data fading" when
\* only from has one, "consistently <tone>" when both have the same one and
\* "shifting from <tone> to <tone>" when they differ; <tone> is the fixed
\* label of the tag, or the tag itself when it has no label.
C19_TrendCases ==
    /\ last.op = "compare"
    /\ last.arg[1].vibeDistribution # <<>> \/ last.arg[2].vibeDistribution # <<>>
    => last.ret.vibeTrend =
           TrendOf(last.arg[1].vibeDistribution, last.arg[2].vibeDistribution)

\* ------------------------------------------------------------------------
\* C20 (SpecDrift)
\* ------------------------------------------------------------------------

\* C20: checkDrift() with no saved snapshot returns null, raises no error and
\* writes nothing: the snapshot store is as empty as before, and every
\* checkDrift() made before the first takeSnapshot() returns null.
C20_NothingToCompare ==
    /\ last.op = "checkDrift" /\ listSnapshots(last.pre).value = <<>> =>
           /\ last.ret = Null
           /\ fs = last.pre
           /\ listSnapshots(fs).value = <<>>
    /\ \A i \in 1..Len(calls) :
           /\ calls[i].op = "checkDrift"
           /\ \A j \in 1..(i - 1) : calls[j].op # "takeSnapshot"
           => calls[i].ret = Null

\* checkDrift() called twice in a row on a base directory that holds a
\* Curated Memory and no snapshot
C20_Witness ==
    /\ Len(calls) >= 3
    /\ calls[Len(calls) - 1].op = "checkDrift"
    /\ last.op = "checkDrift"
    /\ last.ret = Null
    /\ fs[memPath] # Null
    /\ \A i \in 1..Len(Dates) : fs[snapshotPath(Dates[i])] = Null

\* ------------------------------------------------------------------------
\* C21, C22 (SpecDrift)
\* ------------------------------------------------------------------------

\* the snapshot a call took and saved: Null, or Some(snapshot)
TakenBy(c) ==
    IF c.op = "takeSnapshot" THEN Some(c.ret)
    ELSE IF c.op = "checkDrift" /\ c.ret # Null THEN Some(c.ret[1].to)
    ELSE Null

\* the calls among the first n that took a snapshot on day d
TakersOn(d, n) == {i \in 1..n : TakenBy(calls[i]) # Null /\ calls[i].day = d}

\* the snapshot stored when the first n calls are done: that of the last
\* call that took one (the days of the calls never decrease, so it is the
\* one with the greatest date); Null when there is none
LatestAfter(n) ==
    IF \A i \in 1..n : TakenBy(calls[i]) = Null THEN Null
    ELSE TakenBy(calls[CHOOSE i \in 1..n :
                           /\ TakenBy(calls[i]) # Null
                           /\ \A j \in (i + 1)..n : TakenBy(calls[j]) = Null])

\* C21: when a snapshot is saved, checkDrift() returns compare(latest,
\* fresh): latest is the saved snapshot of the greatest date as it was stored
\* before the call, fresh measures the state the call found.  On return fresh
\* is the snapshot stored under today's date, in place of the one today had,
\* and no other file has changed.
C21_LatestAgainstFresh ==
    last.op = "checkDrift" /\ listSnapshots(last.pre).value # <<>> =>
        /\ last.ret # Null
        /\ Some(last.ret[1].from) = LatestAfter(Len(calls) - 1)
        /\ last.ret[1].to.memorySize = ByteLength(FileText(last.pre, memPath))
        /\ last.ret[1].to.soulHash = hash(FileText(last.pre, soulPath))
        /\ last.ret[1].to.diaryCount =
               Cardinality({i \in 1..Len(Dates) : last.pre[dailyLogPath(Dates[i])] # Null})
        /\ last.ret[1] = compare(last.ret[1].from, last.ret[1].to)
        /\ loadSnapshot(fs, last.day).value = Some(last.ret[1].to)
        /\ \A p \in Paths \ {snapshotPath(last.day)} : fs[p] = last.pre[p]

\* checkDrift() on a day that already has a snapshot, after Curated Memory
\* has grown: the report tells the growth and today's snapshot is replaced
C21_Witness ==
    /\ last.op = "checkDrift"
    /\ last.pre[snapshotPath(last.day)] # Null
    /\ last.ret # Null
    /\ last.ret[1].memoryGrowth > 0
    /\ fs[snapshotPath(last.day)] # last.pre[snapshotPath(last.day)]

\* C22: at most one snapshot is stored per calendar day.  After any sequence
\* of takeSnapshot() and checkDrift() calls listSnapshots() holds one id for
\* each date on which a snapshot was taken, in ascending order, and
\* loadSnapshot(date) returns the last snapshot taken on that date.
C22_OnePerDay ==
    /\ listSnapshots(fs).value =
           SelectSeq(Dates, LAMBDA d : TakersOn(d, Len(calls)) # {})
    /\ \A i \in 1..Len(Dates) :
           TakersOn(Dates[i], Len(calls)) # {} =>
               loadSnapshot(fs, Dates[i]).value =
                   TakenBy(calls[CHOOSE k \in TakersOn(Dates[i], Len(calls)) :
                                     \A j \in TakersOn(Dates[i], Len(calls)) : j <= k])

\* snapshots taken on two days, two of them on the second day and the later
\* of the two different from the earlier one
C22_Witness ==
    /\ Cardinality(TakersOn(Dates[1], Len(calls))) = 1
    /\ Cardinality(TakersOn(Dates[2], Len(calls))) = 2
    /\ \E i \in TakersOn(Dates[2], Len(calls)) :
           TakenBy(calls[i]) # loadSnapshot(fs, Dates[2]).value
    /\ listSnapshots(fs).value = Dates

\* the search just made, asked for n results instead
SearchedFor(n) ==
    search(last.pre, last.arg.query, last.arg.options.layers, n,
           last.arg.options.minScore)

\* a was discovered before b: in an earlier layer, or in L3 in the log of a
\* later date, or higher up in the same file
DiscoveredBefore(a, b) ==
    LET LayerRank(l) == IF l = "L1" THEN 1 ELSE IF l = "L2" THEN 2 ELSE 3
        DateIndex(path) ==
            CHOOSE i \in 1..Len(PastDates \o Dates) : (PastDates \o Dates)[i] = path[2]
    IN  \/ LayerRank(a.layer) < LayerRank(b.layer)
        \/ a.layer = "L3" /\ b.layer = "L3" /\ DateIndex(a.path) > DateIndex(b.path)
        \/ a.path = b.path /\ a.line < b.line

\* the results are in order: a higher score first, and of two equal scores
\* the one discovered first
Ranked(results) ==
    \A i, j \in 1..Len(results) :
        i < j =>
            \/ results[i].score[1] * results[j].score[2]
                   > results[j].score[1] * results[i].score[2]
            \/ /\ results[i].score[1] * results[j].score[2]
                      = results[j].score[1] * results[i].score[2]
               /\ DiscoveredBefore(results[i], results[j])

\* fewer than 30 daily logs are more recent than the one at path
AmongRecent(f, path) ==
    Cardinality({i \in 1..Len(PastDates \o Dates) :
                    /\ f[dailyLogPath((PastDates \o Dates)[i])] # Null
                    /\ \E j \in 1..(i - 1) : (PastDates \o Dates)[j] = path[2]}) < 30

\* C23: search() returns the first maxResults of the pooled matches sorted by
\* score descending, ties kept in discovery order (L1 before L2 before L3,
\* within L3 the more recent date first, within a file top to bottom); the
\* results come only from the requested layers, and those of L3 only from
\* the 30 most recent daily logs.  The list is compared with the one the same
\* search returns when asked for one result more.
C23_RankedAndBounded ==
    last.op = "search" =>
        /\ Len(last.ret) <= last.arg.options.maxResults
        /\ Len(SearchedFor(Len(last.ret) + 1)) > Len(last.ret) =>
               Len(last.ret) = last.arg.options.maxResults
        /\ last.ret = Sub(SearchedFor(Len(last.ret) + 1), 1, Len(last.ret))
        /\ Ranked(SearchedFor(Len(last.ret) + 1))
        /\ \A i \in 1..Len(last.ret) :
               /\ last.ret[i].layer \in last.arg.options.layers
               /\ last.ret[i].layer = "L3" => AmongRecent(last.pre, last.ret[i].path)

\* a search of all layers for "ab zz" over 31 daily logs or more, the oldest
\* of which alone among the logs holds both terms: the ten results are the
\* paragraph of Active Context with both terms, then the paragraphs with one
\* term in the order of their discovery, the last of them from the logs
C23_Witness ==
    /\ last.op = "search"
    /\ last.arg.query = <<SP, "a", "b", SP, "z", "z">>
    /\ last.arg.options.layers = {"L1", "L2", "L3"}
    /\ last.pre[dailyLogPath(PastDates[1])] # Null
    /\ last.pre[acPath] # Null
    /\ last.pre[memPath] # Null
    /\ Len(last.ret) = last.arg.options.maxResults
    /\ last.ret[1].score = <<2, 2>>
    /\ last.ret[2].score = <<1, 2>>
    /\ last.ret[2].layer = "L1"
    /\ last.ret[Len(last.ret)].layer = "L3"

\* the words of a query: its maximal runs of two characters or more between
\* white space, as <<first, last>> positions
QueryWords(q) ==
    {w \in (1..Len(q)) \X (1..Len(q)) :
        /\ w[1] < w[2]
        /\ \A k \in w[1]..w[2] : ~IsSpace(q[k])
        /\ w[1] = 1 \/ IsSpace(q[w[1] - 1])
        /\ w[2] = Len(q) \/ IsSpace(q[w[2] + 1])}

\* the distinct terms of a query that occur in a text, over the number of
\* the query's terms
TermsFound(text, q) ==
    <<Cardinality({t \in {LowerCase(Sub(q, w[1], w[2])) : w \in QueryWords(q)} :
                      IndexOf(LowerCase(text), t, 1) # 0}),
      Cardinality(QueryWords(q))>>

\* the paragraphs of the file at path: its maximal runs of lines that are
\* not blank, each with the number of its first line and its trimmed text
ParagraphsOf(f, path) ==
    LET Blank(line) == Trim(line) = <<>>
        Runs(lines) ==
            {r \in (1..Len(lines)) \X (1..Len(lines)) :
                /\ r[1] <= r[2]
                /\ \A k \in r[1]..r[2] : ~Blank(lines[k])
                /\ r[1] = 1 \/ Blank(lines[r[1] - 1])
                /\ r[2] = Len(lines) \/ Blank(lines[r[2] + 1])}
        Text(lines, r) ==
            Trim(Flatten([k \in 1..(r[2] - r[1] + 1) |-> lines[r[1] + k - 1] \o <<NL>>]))
        Listed(lines) ==
            {[path |-> path, line |-> r[1], content |-> Text(lines, r)] : r \in Runs(lines)}
    IN  Listed(SplitLines(FileText(f, path)))

\* the files a search of the layers reads
SearchedPaths(f, layers) ==
    (IF "L1" \in layers THEN {acPath} ELSE {})
        \cup (IF "L2" \in layers THEN {memPath} ELSE {})
        \cup (IF "L3" \in layers
              THEN {p \in {dailyLogPath((PastDates \o Dates)[i]) :
                               i \in 1..Len(PastDates \o Dates)} :
                        f[p] # Null /\ AmongRecent(f, p)}
              ELSE {})

\* C24: the terms of a query are its lower-cased words of length > 1.  Every
\* returned paragraph's score is the number of distinct terms that occur in
\* it over the number of terms, and exactly the paragraphs of the searched
\* files with that score >= minScore are candidates (all of them are
\* returned when maxResults does not cut the list); a query without a term
\* returns the empty list.
C24_ScoreIsTermsFound ==
    last.op = "search" =>
        /\ QueryWords(last.arg.query) = {} => last.ret = <<>>
        /\ \A i \in 1..Len(last.ret) :
               last.ret[i].score[1] * TermsFound(last.ret[i].content, last.arg.query)[2]
                   = TermsFound(last.ret[i].content, last.arg.query)[1] * last.ret[i].score[2]
        /\ QueryWords(last.arg.query) # {} /\ Len(last.ret) < last.arg.options.maxResults =>
               {[path |-> last.ret[i].path, line |-> last.ret[i].line,
                 content |-> last.ret[i].content] : i \in 1..Len(last.ret)}
                   = {c \in UNION {ParagraphsOf(last.pre, p) :
                                       p \in SearchedPaths(last.pre, last.arg.options.layers)} :
                         TermsFound(c.content, last.arg.query)[1] * last.arg.options.minScore[2]
                             >= last.arg.options.minScore[1]
                                    * TermsFound(c.content, last.arg.query)[2]}

\* the position in a window of vibes at which its leading tag is first seen:
\* no tag occurs more often, and of the tags that occur as often none is
\* seen earlier
Leader(w) ==
    LET CountIn(tag) == Cardinality({i \in 1..Len(w) : w[i].vibe = tag})
        FirstSeen(tag) == CHOOSE i \in 1..Len(w) :
                              w[i].vibe = tag /\ \A h \in 1..(i - 1) : w[h].vibe # tag
    IN  CHOOSE i \in 1..Len(w) :
            /\ FirstSeen(w[i].vibe) = i
            /\ \A j \in 1..Len(w) :
                   \/ CountIn(w[j].vibe) < CountIn(w[i].vibe)
                   \/ /\ CountIn(w[j].vibe) = CountIn(w[i].vibe)
                      /\ i <= FirstSeen(w[j].vibe)

\* the tone label of each of the five tags
ToneLabel(tag) ==
    IF tag = <<"FIRE">> THEN "energetic, passionate"
    ELSE IF tag = <<"THOUGHT">> THEN "reflective, thoughtful"
    ELSE IF tag = <<"SLEEPY">> THEN "calm, low-energy"
    ELSE IF tag = <<"HEART">> THEN "warm, affectionate"
    ELSE "inspired, significant"

\* a report tells the tag first seen at position i of the window w, its
\* label, its count over the size of the window, and a summary
Tells(report, w, i, summary) ==
    /\ StartsAt(report, 1, w[i].vibe \o <<SP, ToneLabel(w[i].vibe), SP>>)
    /\ Contains(report, <<"(", ToString(Cardinality({j \in 1..Len(w) : w[j].vibe = w[i].vibe})),
                          "/", ToString(Len(w)), SP>>)
    /\ Contains(report, <<"\"">> \o summary \o <<"\"">>)

\* C25: resonance() returns a text containing "neutral" when Active Context
\* has no vibes; otherwise it reports the most frequent tag of the last
\* min(5, n) active vibes (of tags as frequent the one seen first), that
\* tag's tone label, its count over the size of the window, and the summary
\* of the vibe captured last.
C25_ResonanceReport ==
    last.op = "resonance" =>
        IF ActiveVibesIn(last.pre) = <<>> THEN Contains(last.ret, <<"neutral">>)
        ELSE Tells(last.ret, LastN(ActiveVibesIn(last.pre), 5),
                   Leader(LastN(ActiveVibesIn(last.pre), 5)),
                   captured[Len(captured)].summary)

\* C26: promote(snapshot, reflection) only appends to Curated Memory.
\* Afterwards Curated Memory (what readMemory() returns of a file that can be
\* read) contains the snapshot's summary and the reflection verbatim, the
\* previous content with its trailing white space trimmed is a prefix of it,
\* and Active Context is as it was.
C26_PromoteAppends ==
    last.op = "promote" =>
        /\ Contains(FileText(fs, memPath), <<"cost", SP, "$", "1", SP, "each">>)
        /\ Contains(FileText(fs, memPath), last.arg)
        /\ IsPrefix(TrimEnd(FileText(last.pre, memPath)), FileText(fs, memPath))
        /\ fs[acPath] = last.pre[acPath]

AgentsOf(list) == [i \in 1..Len(list) |-> list[i].agent]

\* C28: a topic is an append-only log.  After k publish() calls to a topic,
\* made one after another by any mix of agents, read(topic) returns k
\* messages in publish order, each with its publisher's agent name; and a
\* publish leaves the messages the topic had in their places and changes
\* nothing of what read() returns for another topic.
C28_AppendOnlyLog ==
    (\A i \in 1..Len(calls) : calls[i].op = "publish") =>
        /\ \A t \in Topics :
               AgentsOf(read(fs, t).value)
                   = AgentsOf(SelectSeq(calls, LAMBDA c : c.target = t))
        /\ last.op = "publish" =>
               \A t \in Topics :
                   IF t = last.arg.topic
                   THEN IsPrefix(read(last.pre, t).value, read(fs, t).value)
                   ELSE read(fs, t).value = read(last.pre, t).value

\* a message is what was published: its content is the published content
\* trimmed and its metadata the published entries
IsPublished(message, content, metadata) ==
    /\ message.content = Trim(content)
    /\ message.metadata =
           IF metadata = <<>> THEN Null
           ELSE Some({metadata[i] : i \in 1..Len(metadata)})

\* C29: publish(topic, content, metadata) followed by read(topic) returns,
\* as its last message, one whose content is the published content trimmed
\* and whose metadata is the published metadata, for every content and
\* metadata: also a content with a "---" line, with blank lines, with lines
\* starting with ">" or "# ", and metadata values with ": " or " | ".
C29_PublishedIsRead ==
    last.op = "publish" =>
        /\ read(fs, last.arg.topic).value # <<>>
        /\ IsPublished(read(fs, last.arg.topic).value[Len(read(fs, last.arg.topic).value)],
                       last.arg.content, last.arg.metadata)

\* C30: the shared state files are apart from the topic logs.  For every
\* name and every topic, a name equal to a topic included, writeState(name,
\* c) does not change the messages read(topic) returns, and publish(topic,
\* ...) does not change what readState(name) returns.
C30_StateApartFromTopics ==
    /\ last.op = "writeState" =>
           \A t \in Topics : read(fs, t).value = read(last.pre, t).value
    /\ last.op = "publish" =>
           \A n \in StateNames : readState(fs, n).value = readState(last.pre, n).value

\* the entries of a list that a reader of the last limit entries is to
\* return
LastOf(list, limit) == LastN(list, Min(limit, Len(list)))

\* C31: the readers of the last N return at most N entries.  For every limit
\* >= 0, 0 included, readRecent({limit, filter}) returns the last min(limit,
\* m) of the m active vibes that match the filter, and readLatest(topic,
\* limit) the last min(limit, m) of the topic's m messages, oldest first.
C31_AtMostLimit ==
    /\ last.op = "readRecent" =>
           last.ret.value =
               LastOf(SelectSeq(ActiveVibesIn(last.pre),
                                LAMBDA v : last.arg.filter = <<>> \/ v.vibe = last.arg.filter),
                      last.arg.limit)
    /\ last.op = "readLatest" =>
           last.ret.value = LastOf(read(last.pre, "general").value, last.arg.limit)

\* C32: capture(s) makes s the current vibe.  current() called right after
\* capture(s) returned gives a snapshot with the vibe tag, the summary and
\* the trigger (none if s had none) of s, also when the capture set off the
\* archival; current() is null only while no vibe is active.
C32_CapturedIsCurrent ==
    last.op = "current" =>
        /\ last.ret.value = Null => ActiveVibesIn(last.pre) = <<>>
        /\ captured # <<>> =>
               /\ last.ret.value # Null
               /\ last.ret.value[1].vibe = captured[Len(captured)].vibe
               /\ last.ret.value[1].summary = captured[Len(captured)].summary
               /\ last.ret.value[1].trigger = captured[Len(captured)].trigger

\* the text a returned call is to have left in its file
Mark(c) ==
    IF c.op = "appendMemory" THEN Trim(c.arg)
    ELSE IF c.op = "appendDailyLog" THEN Trim(c.arg.content)
    ELSE IF c.op = "publish" THEN c.arg
    ELSE formatVibeLine(c.arg)

C34_ArchivesWhenOver ==
    last.op = "capture" =>
        IF Len(ActiveVibesIn(last.pre)) + 1 > MAX_ACTIVE_VIBES
        THEN Len(ActiveVibesIn(fs)) = keepCount
        ELSE /\ Len(ActiveVibesIn(fs)) = Len(ActiveVibesIn(last.pre)) + 1
             /\ fs[diaryPath(today)] = last.pre[diaryPath(today)]

\* the lines of doc before its first `## title` heading line; all of them
\* when it has none
LinesBefore(doc, title) ==
    LET Upto(hs) == IF hs = {} THEN SplitLines(doc)
                    ELSE Sub(SplitLines(doc), 1, (CHOOSE x \in hs : \A h \in hs : x <= h) - 1)
    IN  Upto(HeadingsOf(doc, title))

\* C35: a section heading is recognized only at the start of a line, as
\* exactly `## ` followed by the exact title.  `### T`, or `## T` mid-line
\* in the body of another section, is never taken for the heading of
\* section T: updateActiveContextSection(T, c) and capture() (T = Vibe
\* History) leave every line before the heading line of T as it was, and
\* append the section when no line is that heading; readRecent() reads the
\* vibes under that heading line and none when there is none.
C35_HeadingAtLineStart ==
    /\ last.op \in {"updateActiveContextSection", "capture"} =>
           /\ HasSection(PreDoc, EditedTitle) =>
                  LinesBefore(PostDoc, EditedTitle) = LinesBefore(PreDoc, EditedTitle)
           /\ ~HasSection(PreDoc, EditedTitle) =>
                  /\ IsPrefix(TrimEnd(PreDoc), PostDoc)
                  /\ Cardinality(HeadingsOf(Sub(PostDoc, Len(TrimEnd(PreDoc)) + 1,
                                                Len(PostDoc)), EditedTitle)) = 1
    /\ ActiveLinesIn(fs) =
           IF HasSection(PostDoc, VIBE_SECTION)
           THEN VibeLinesOf(Join(SectionOf(PostDoc, VIBE_SECTION).body, <<NL>>))
           ELSE <<>>

\* C36: archive() writes the to-archive lines to the diary file before it
\* rewrites Active Context.  At every point of an archive() call, also
\* after a failure between the two writes, each vibe that was active when
\* the call read Active Context is still in Active Context or in today's
\* diary: a failure can duplicate vibes, never lose one.
C36_NoVibeLost ==
    \A i \in 1..Len(calls) :
        (/\ i = Len(calls)
         /\ \/ calls[i].op = "archive"
            \/ calls[i].pc \in {"diary", "diaryWrite", "activeWrite"}) =>
            AllIn(ActiveLinesIn([fs EXCEPT ![acPath] = calls[i].seen]),
                  ActiveLinesIn(fs) \o DiaryLinesIn(fs, today))

\* C37: archive() when Active Context holds at most 5 vibes returns 0 and
\* writes nothing: neither the diary file nor Active Context changes and no
\* diary file is created.  Consequently archive() called twice in a row
\* leaves the same files as archive() called once.
C37_NothingToArchive ==
    last.op = "archive" =>
        /\ (Len(ActiveVibesIn(last.pre)) <= keepCount) => (last.ret = 0 /\ fs = last.pre)
        /\ archive(fs, today).fs = fs

\* C38: even when several capture() calls interleave at their file reads
\* and writes, once all of them have returned the Vibe History holds at most
\* 10 vibe lines.
C38_CeilingAtQuiescence ==
    (calls # <<>> /\ \A i \in 1..Len(calls) : calls[i].pc = "done") =>
        Len(ActiveVibesIn(fs)) <= MAX_ACTIVE_VIBES

\* C39: updateActiveContextSection is idempotent.  For every document, title
\* and content, updateActiveContextSection(T, c) called twice in a row
\* leaves Active Context byte-identical to calling it once.
C39_UpdateIdempotent ==
    last.op = "updateActiveContextSection" =>
        updateActiveContextSection(fs, last.arg.title, last.arg.content)[acPath]
            = fs[acPath]

\* the title header line of the diary of day d
DiaryHeader(d) == <<"#", SP, "XinZhiRiJi", SP, d>>

\* C40: a day's Mind Diary file created through the engine has exactly one
\* title header line, as its first line.  After any sequence of
\* appendDiary() and archive() calls on the same date, in any order, the
\* header written by the call that created the file is not repeated, and all
\* earlier diary content remains an unchanged prefix.
C40_OneHeaderKeptPrefix ==
    last.op \in {"appendDiary", "archive"} =>
        /\ fs[diaryPath(today)] # Null =>
               /\ SplitLines(fs[diaryPath(today)][1])[1] = DiaryHeader(today)
               /\ Cardinality({i \in 1..Len(SplitLines(fs[diaryPath(today)][1])) :
                                  SplitLines(fs[diaryPath(today)][1])[i] = DiaryHeader(today)})
                      = 1
        /\ IsPrefix(FileText(last.pre, diaryPath(today)), FileText(fs, diaryPath(today)))

====
